---- MODULE Spec2Model ----
(***************************************************************************)
(* Model of the VOLTTRON agent core (volttron/platform/vip/agent/core.py): *)
(* the run/stop lifecycle of BasicCore/Core, the hello/welcome handshake   *)
(* and frame dispatch of ZMQCore, and the deadline scheduler.              *)
(*                                                                         *)
(* Greenlets are cooperative: every action below is one stretch of code    *)
(* between two points where a greenlet can be suspended.                   *)
(***************************************************************************)
EXTENDS Integers, Sequences, FiniteSets, TLC

VARIABLES
    \* ---- lifecycle of BasicCore.run / ZMQCore.loop ----
    address,              \* "tcp" or "inproc": the scheme of Core.address
    runPc,                \* position of the run greenlet
    stop_event,           \* BasicCore._stop_event is set
    socketOpen,           \* ZMQConnection socket opened and not yet closed
    vipLoop,              \* the vip_loop greenlet: "none", "running", "killed"
    linkUp,               \* transport-level connection as seen by the monitor
    connected,            \* Core.__connected
    helloCount,           \* HelloState.count
    ident,                \* HelloState.ident
    hello_response_event, \* the gevent Event shared by all hellos
    running_event,        \* caller-supplied event: "none", "clear", "set"
    checks,               \* connection_failed_check greenlet of each hello
    welcomed,             \* hello numbers whose matching welcome was processed
    answered,             \* hello numbers whose welcome the router has delivered
    subsystems,           \* Core.subsystems: name -> handler ("none" = absent)
    onstartTasks,         \* onstart receiver greenlets not yet finished
    onstopTasks,          \* onstop receiver greenlets still running
    recv,                 \* the frame vip_loop took in the latest step
    out,                  \* frames written to the socket by the latest step
    invoked,              \* handlers invoked by the latest step
    trace,                \* lifecycle events in the order they happened
    \* ---- scheduler of BasicCore ----
    now,                  \* time.time(), in seconds
    heap,                 \* BasicCore._schedule: the entries of the heap
    tie_breaker,          \* BasicCore.tie_breaker
    pushes,               \* number of _schedule_callback calls so far
    kinds,                \* per event: "none", "oneshot" or "iter"
    canceled,             \* events with ScheduledEvent.canceled
    finished,             \* events with ScheduledEvent.finished
    iters,                \* per event: the deadlines its iterator still holds
    spawnQ,               \* callbacks spawned by schedule_loop, not yet started
    calls,                \* per event: invocations of its function
    schedPc,              \* schedule_loop greenlet: "created","running","killed"
    raised,               \* a scheduled function has raised
    periodicPc,           \* Periodic._loop greenlet: "none","call","sleep","killed"
    periodicDeadline,     \* deadline of Periodic._loop
    periodicRaised,       \* the periodic method has raised
    started,              \* push numbers of the callbacks that have started
    \* ---- a caller of stop(timeout) ----
    stopCall,             \* the caller: "idle", "joining" or "returned"
    stopResult,           \* what stop returned to it
    \* ---- Core.register ----
    error_handlers,       \* per name: the error handlers connected to
                          \* onviperror by register, in connection order
    firstHandler,         \* history: per name, the handler installed first
    \* ---- the receive loop and its handlers, frame by frame ----
    bus,                  \* "zmq" (ZMQCore) or "rmq" (RMQCore)
    arrived,              \* per frame received from the transport, in
                          \* order: does its subsystem have a handler;
                          \* frame k is the k-th one received
    event_queue,          \* RMQCore._event_queue
    handling,             \* the frame whose handler is running, 0 if none
    startedFrames,        \* frames whose handler was called, in call order
    returnedFrames,       \* frames whose handler has returned, in order
    \* ---- PeerList ----
    results,              \* per AsyncResult made by PeerList: "none",
                          \* "pending", "value" or "error"
    table,                \* the idents held by PeerList._results
    completions,          \* history: per result, its set/set_exception calls
    peers_list,           \* PeerList.peers_list
    sendFailed,           \* history: results whose request raised ENOTSOCK
    pendingAtDrop,        \* history: results that were pending, their
                          \* request sent, at an EVENT_DISCONNECTED
    \* ---- the reconnect counter of the socket monitor ----
    reconnect_attempt,    \* Core._reconnect_attempt
    consecutive,          \* history: retries since the latest CONNECTED
    gaveUp,               \* the monitor has given up and stopped the agent
    \* ---- the connection signals ----
    onconnectedSent,      \* history: calls of onconnected.send
    ondisconnectedSent,   \* history: calls of ondisconnected.send
    \* ---- send, send_async, spawn_in_thread ----
    async_calls,          \* BasicCore._async_calls: the calls not yet taken
    asyncSent,            \* BasicCore._async has a send not yet delivered
    handle_async,         \* handle_async_: "idle", "test" (at "while calls")
                          \* or "pop" (inside the loop body)
    callKind,             \* per call: "none", "send", "send_async" or
                          \* "spawn_in_thread"
    producer,             \* per call, its submitter: "none", "func" (the
                          \* thread runs func), "first", "second" (the two
                          \* statements of send), "done", "dead"
    spawnedFor,           \* per call: greenlets handle_async_ spawned for it
    worker,               \* per call, the greenlet spawned for it: "none",
                          \* "spawned", "running", "done", "killed"
    callback,             \* per call, its func: "none", "running",
                          \* "blocked" (in a call that does not yield),
                          \* "returned", "raised" (an Exception), "exited"
                          \* (an exception that is not an Exception)
    resultFlag,           \* per call: async_ of send_async has a send not
                          \* yet delivered to receiver
    future,               \* per call, its AsyncResult: "none", "pending",
                          \* "value", "exception"
    futureSets,           \* history: per call, set/set_exception calls
    greenlets,            \* per greenlet of spawn / spawn_later: "none",
                          \* "pending" (start timer running), "running",
                          \* "done", "killed"
    taskVia,              \* per greenlet: "none", "spawn", "spawn_later"
    tracked,              \* spawned_greenlets, the part made by spawn and
                          \* spawn_later
    spawnedLate,          \* history: greenlets spawned after run returned
    steppedLate,          \* history: greenlets that ran after run returned
    deadlines,            \* history: per event, the deadlines schedule() was
                          \* given, a single instant as a sequence of one;
                          \* 0 in the place of a deadline whose callback
                          \* greenlet has run or has been killed
    routerBound,          \* the broker has the router's queue binding
    helloLater,           \* spawn_later(2, hello) is pending
    points,               \* PolyLine.points
    min_x, max_x,         \* PolyLine._min_x, _max_x, _min_y and _max_y:
    min_y, max_y,         \* None or a number
    added,                \* history: the points add was called with
    adds                  \* history: the number of calls of add

coreVars == <<address, runPc, stop_event, socketOpen, vipLoop, linkUp,
              connected, helloCount, ident, hello_response_event,
              running_event, checks, welcomed, answered, subsystems,
              onstartTasks, onstopTasks, recv, out, invoked, trace>>

schedVars == <<now, heap, tie_breaker, pushes, kinds, canceled, finished,
               iters, spawnQ, calls, schedPc, raised, periodicPc,
               periodicDeadline, periodicRaised, started>>

stopVars == <<stopCall, stopResult>>

regVars == <<error_handlers, firstHandler>>

orderVars == <<bus, arrived, event_queue, handling, startedFrames,
               returnedFrames>>

peerVars == <<results, table, completions, peers_list, sendFailed,
              pendingAtDrop>>

retryVars == <<reconnect_attempt, consecutive, gaveUp>>

sigVars == <<onconnectedSent, ondisconnectedSent>>

asyncVars == <<async_calls, asyncSent, handle_async, callKind, producer,
               spawnedFor, worker, callback, resultFlag, future, futureSets>>

taskVars == <<greenlets, taskVia, tracked, spawnedLate, steppedLate>>

rmqVars == <<routerBound, helloLater>>

polyVars == <<points, min_x, max_x, min_y, max_y, added, adds>>

lateVars == <<rmqVars, polyVars>>

moreVars == <<sigVars, asyncVars, taskVars, deadlines, lateVars>>

\* the variables outside the scheduler that schedule() leaves alone
notSchedule == <<stopVars, regVars, orderVars, peerVars, retryVars, sigVars,
                 asyncVars, taskVars, lateVars>>

extVars == <<stopVars, regVars, orderVars, peerVars, retryVars, moreVars>>

vars == <<coreVars, schedVars, extVars>>

(***************************************************************************)
(* Bounds of the model.                                                    *)
(***************************************************************************)
MaxHello == 2        \* hellos sent in one run (CONNECTED events)
NumOnstart == 1      \* receivers connected to onstart
NumOnstop == 1       \* receivers connected to onstop
MaxEvents == 2       \* schedule() calls in one run
MaxTime == 2         \* the clock runs from 0 to MaxTime
MaxErrorHandlers == 1  \* register calls with an error handler, per name
MaxFrames == 4       \* frames received in the frame-by-frame view
MaxResults == 1      \* requests made through PeerList in one run
MaxCalls == 2        \* calls handed to send, send_async, spawn_in_thread
MaxTasks == 2        \* greenlets started with spawn and spawn_later
MaxCoord == 2        \* the coordinates of a point run from 0 to MaxCoord
MaxAdds == 3         \* calls of PolyLine.add

(***************************************************************************)
(* Frames (volttron.platform.vip.socket.Message).                          *)
(***************************************************************************)
Message(peer, subsystem, id, user, args) ==
    [peer |-> peer, subsystem |-> subsystem, id |-> id, user |-> user,
     args |-> args]

\* 'connect.hello.%d' % state.count
HelloIdent(n) == <<"connect.hello", n>>

RequestId == <<"request", 1>>

\* router._INVALID_SUBSYSTEM: (error code, error message)
INVALID_SUBSYSTEM == <<"EPROTONOSUPPORT", "unknown subsystem">>

WelcomeArgs == <<"welcome", "0.1", "router", "agent">>
ShortWelcomeArgs == <<"welcome", "0.1", "router">>

SubsystemNames == {"error", "hello", "pubsub", "peerlist", "bogus"}

\* The frames of the hello subsystem the router may deliver to the agent:
\* the welcome to each hello, and a welcome that lacks its last argument.
HelloFrames ==
    { Message("", "hello", HelloIdent(n), "", WelcomeArgs) :
        n \in 0..(MaxHello - 1) }
    \cup { Message("", "hello", HelloIdent(0), "", ShortWelcomeArgs) }

\* A welcome with one value more, under an ident no hello of the agent has.
LongWelcomeArgs == <<"welcome", "0.1", "router", "agent", "extra">>

StrayHelloFrames ==
    { Message("", "hello", HelloIdent(MaxHello), "", LongWelcomeArgs) }

\* The frames of other subsystems a peer may send to the agent.
PeerFrames ==
    { Message("peerA", s, RequestId, "userA", <<"data">>) :
        s \in {"pubsub", "bogus", "error"} }

InboundFrames == HelloFrames \cup PeerFrames

\* result.ident of the k-th AsyncResult made by next(self._results)
ResultIdent(k) == <<"result", k>>

\* the result an ident names, 0 if it is not the ident of a result
ResultOf(id) == IF Len(id) = 2 /\ id[1] = "result" THEN id[2] ELSE 0

\* The frames about the peer directory the router may deliver: the reply
\* to list and to list_with_messagebus, the add and drop notifications,
\* and the error reply to a request; a reply may carry any result ident,
\* whether or not its request is still outstanding.
ListingFrames ==
    { Message("", "peerlist", ResultIdent(k), "", <<"listing", "peerA">>) :
        k \in 1..MaxResults }

PeerListFrames ==
    ListingFrames
    \cup { Message("", "peerlist", ResultIdent(k), "",
                   <<"listing_with_messagebus", "{}">>) :
             k \in 1..MaxResults }
    \cup { Message("", "peerlist", << >>, "", <<op, "peerB">>) :
             op \in {"add", "drop"} }
    \cup { Message("", "error", ResultIdent(k), "",
                   <<"EHOSTUNREACH", "unreachable", "", "peerlist">>) :
             k \in 1..MaxResults }

\* The frames that bear on the set of peers: listings of every set of peers
\* under every result ident, add and drop of every peer, and the frames
\* that lack the operation or the peer or name an unknown operation.
PeerNames == {"peerA", "peerB"}

PeerSetFrames ==
    { Message("", "peerlist", ResultIdent(k), "", <<"listing">> \o ps) :
        k \in 1..MaxResults,
        ps \in {<< >>, <<"peerA">>, <<"peerB">>, <<"peerA", "peerB">>} }
    \cup { Message("", "peerlist", << >>, "", <<op, p>>) :
             op \in {"add", "drop", "rename"}, p \in PeerNames }
    \cup { Message("", "peerlist", << >>, "", a) :
             a \in {<< >>, <<"add">>, <<"drop">>} }

\* Error frames: the router's (errnum, message, peer, subsystem) and the
\* reply of a peer's receive loop to an unknown subsystem
\* (code, message, subsystem), each naming the subsystem the error is about.
ErrorFrames ==
    { Message("peerA", "error", RequestId, "",
              <<"EHOSTUNREACH", "unreachable", "peerB", sub>>) :
        sub \in {"hello", "pubsub"} }
    \cup { Message("peerA", "error", RequestId, "",
                   Append(INVALID_SUBSYSTEM, sub)) :
             sub \in {"hello", "pubsub"} }

NoHandler == "none"

\* HelloState.ident before the first hello (None)
NoIdent == <<"None">>

\* the default id '' of a frame sent with send_vip
EmptyId == <<>>

Identity == "agent"

\* no frame was taken from the socket
NoFrame == Message("", "", EmptyId, "", << >>)

(***************************************************************************)
(* Class attributes of Core.                                               *)
(***************************************************************************)
\* variant: the value BasicCore gives the attribute
delay_onstart_signal_Basic == FALSE

delay_onstart_signal == TRUE

\* variant: the value BasicCore gives the attribute
delay_running_event_set_Basic == FALSE

delay_running_event_set == TRUE

(***************************************************************************)
(* Helpers.                                                                *)
(***************************************************************************)
\* Append event e to the lifecycle trace; a repeated event is recorded once.
Note(tr, e) == IF \E i \in 1..Len(tr) : tr[i] = e THEN tr ELSE Append(tr, e)

\* running_event.set() when a running_event was supplied
SetRunning(ev) == IF ev = "none" THEN "none" ELSE "set"

\* a step that neither reads nor writes the socket and invokes no handler
Quiet == recv' = NoFrame /\ out' = << >> /\ invoked' = << >>

\* variant: run does not wait for the stop event
StopWaitOver_NoWait == TRUE

\* run: stop.wait() has returned
StopWaitOver == stop_event

\* variant: run does not wait for the onstop greenlets
OnstopJoined_NoWait == TRUE

\* run: gevent.wait(receivers) has returned: every onstop greenlet is done
OnstopJoined == onstopTasks = 0

\* variant: run does not look at which object ended its wait
LoopEndedFirst_Ignored == FALSE

\* run: loop in gevent.wait([loop, stop], count=1): the greenlet of the
\* loop ended before the stop event was set
LoopEndedFirst == vipLoop = "ended"

\* variant: pre-finish leaves the connection as it is
CloseConnection_Keep(open) == open

\* ZMQCore.loop, pre-finish: connection.disconnect(),
\* connection.close_connection(1) and self.socket = None; RMQCore.loop:
\* connection.close_connection()
CloseConnection(open) == FALSE

\* variant: halt joins the run greenlet without setting the stop event
Halt_NoSet(ev) == ev

\* BasicCore.stop.halt: self._stop_event.set()
Halt(ev) == TRUE

\* Signal.sendby(self.link_receiver, self): one greenlet per receiver
SpawnReceivers(tasks, n) == tasks + n

\* variant: the frame is sent whatever the state of the connection
AgentStopFrames_Always(conn, platform_shutdown) ==
    IF ~platform_shutdown
    THEN << Message("", "agentstop", EmptyId, "", <<Identity>>) >>
    ELSE << >>

\* Core.stop, first half: the 'agentstop' frame for the router
AgentStopFrames(conn, platform_shutdown) ==
    IF conn /\ ~platform_shutdown
    THEN << Message("", "agentstop", EmptyId, "", <<Identity>>) >>
    ELSE << >>

\* The hello frame of create_event_handlers.hello
HelloFrame(n) == Message("", "hello", HelloIdent(n), "", <<"hello">>)

\* vip_loop: the test that recognises the welcome of the outstanding hello
\* variant: the id of the frame is not compared
IsWelcome_AnyIdent(m, id) ==
    /\ m.subsystem = "hello"
    /\ Len(m.args) > 3
    /\ m.args[1] = "welcome"

\* vip_loop: the test of the welcome branch
IsWelcome(m, id) ==
    /\ m.subsystem = "hello"
    /\ m.id = id
    /\ Len(m.args) > 3
    /\ m.args[1] = "welcome"

\* variant: the reply leaves out the name of the unknown subsystem
ErrorReply_NoName(m) ==
    [m EXCEPT !.user = "", !.args = INVALID_SUBSYSTEM, !.subsystem = "error"]

\* vip_loop: the reply to a frame naming an unknown subsystem
ErrorReply(m) ==
    [m EXCEPT !.user = "",
              !.args = Append(INVALID_SUBSYSTEM, m.subsystem),
              !.subsystem = "error"]

\* variant: the registry is made empty
InitialSubsystems_Empty == [s \in SubsystemNames |-> NoHandler]

\* Core.__init__: self.subsystems = {'error': self.handle_error}
InitialSubsystems ==
    [s \in SubsystemNames |->
        IF s = "error" THEN "handle_error" ELSE NoHandler]

\* the hello number n with HelloIdent(n) = id
HelloNumber(id) == CHOOSE n \in 0..MaxHello : HelloIdent(n) = id

(***************************************************************************)
(* Initial state: a constructed Core, run() not yet called.                *)
(***************************************************************************)
CoreInit ==
    /\ address \in {"tcp", "inproc"}
    /\ runPc = "init"
    /\ stop_event = FALSE
    /\ socketOpen = FALSE
    /\ vipLoop = "none"
    /\ linkUp = FALSE
    /\ connected = FALSE
    /\ helloCount = 0
    /\ ident = NoIdent
    /\ hello_response_event = FALSE
    /\ running_event \in {"none", "clear"}
    /\ checks = [n \in 0..MaxHello |-> "none"]
    /\ welcomed = {}
    /\ answered = {}
    /\ subsystems = InitialSubsystems
    /\ onstartTasks = 0
    /\ onstopTasks = 0
    /\ recv = NoFrame
    /\ out = << >>
    /\ invoked = << >>
    /\ trace = << >>

Events == 1..MaxEvents

SchedInit ==
    /\ now = 0
    /\ heap = {}
    /\ tie_breaker = 0
    /\ pushes = 0
    /\ kinds = [e \in Events |-> "none"]
    /\ canceled = {}
    /\ finished = {}
    /\ iters = [e \in Events |-> << >>]
    /\ spawnQ = << >>
    /\ calls = [e \in Events |-> 0]
    /\ schedPc = "created"
    /\ raised = FALSE
    /\ periodicPc = "none"
    /\ periodicDeadline = 0
    /\ periodicRaised = FALSE
    /\ started = {}

\* no stop(timeout) has been called
NoResult == [ready |-> FALSE, basic |-> "unset", core |-> "unset"]

StopInit ==
    /\ stopCall = "idle"
    /\ stopResult = NoResult

RegInit ==
    /\ error_handlers = [n \in SubsystemNames |-> << >>]
    /\ firstHandler = [n \in SubsystemNames |->
                          IF n = "error" THEN "handle_error" ELSE NoHandler]

OrderInit ==
    /\ bus \in {"zmq", "rmq"}
    /\ arrived = << >>
    /\ event_queue = << >>
    /\ handling = 0
    /\ startedFrames = << >>
    /\ returnedFrames = << >>

ResultIds == 1..MaxResults

PeerInit ==
    /\ results = [k \in ResultIds |-> "none"]
    /\ table = {}
    /\ completions = [k \in ResultIds |-> 0]
    /\ peers_list = {}
    /\ sendFailed = {}
    /\ pendingAtDrop = {}

RetryInit ==
    /\ reconnect_attempt = 0
    /\ consecutive = 0
    /\ gaveUp = FALSE

SigInit ==
    /\ onconnectedSent = 0
    /\ ondisconnectedSent = 0

Calls == 1..MaxCalls

AsyncInit ==
    /\ async_calls = << >>
    /\ asyncSent = FALSE
    /\ handle_async = "idle"
    /\ callKind = [c \in Calls |-> "none"]
    /\ producer = [c \in Calls |-> "none"]
    /\ spawnedFor = [c \in Calls |-> 0]
    /\ worker = [c \in Calls |-> "none"]
    /\ callback = [c \in Calls |-> "none"]
    /\ resultFlag = [c \in Calls |-> FALSE]
    /\ future = [c \in Calls |-> "none"]
    /\ futureSets = [c \in Calls |-> 0]

TaskIds == 1..MaxTasks

TaskInit ==
    /\ greenlets = [t \in TaskIds |-> "none"]
    /\ taskVia = [t \in TaskIds |-> "none"]
    /\ tracked = {}
    /\ spawnedLate = {}
    /\ steppedLate = {}

(***************************************************************************)
(* PolyLine (base_market_agent/poly_line.py): a list of points kept in     *)
(* descending order of y, and the extremes of the coordinates seen.        *)
(***************************************************************************)
\* None, and a number n, as the value of an attribute that may be None
None == << >>

Some(n) == << n >>

\* Point(x, y); point[1] is y
Point(x, y) == [x |-> x, y |-> y]

Coords == 0..MaxCoord

Points == { Point(x, y) : x \in Coords, y \in Coords }

\* PolyLine.__init__
PolyInit ==
    /\ points = << >>
    /\ min_x = None /\ max_x = None
    /\ min_y = None /\ max_y = None
    /\ added = {}
    /\ adds = 0

\* PolyLine.min(x1, x2), x2 a number
PolyMin(x1, x2) ==
    IF x1 = None THEN Some(x2)
    ELSE IF x1[1] < x2 THEN x1 ELSE Some(x2)

\* PolyLine.max(x1, x2), x2 a number
PolyMax(x1, x2) ==
    IF x1 = None THEN Some(x2)
    ELSE IF x1[1] > x2 THEN x1 ELSE Some(x2)

\* variant: two points are taken for the same when their x agree
SamePoint_XOnly(p, point) == p.x = point.x

\* add: p.x == point.x and p.y == point.y
SamePoint(p, point) == p.x = point.x /\ p.y = point.y

\* list.sort(key=lambda tup: tup[1], reverse=True), which is stable: each
\* element is put behind those whose y is not smaller
RECURSIVE SortByY(_)
SortByY(ps) ==
    IF ps = << >> THEN << >>
    ELSE LET front == SortByY(SubSeq(ps, 1, Len(ps) - 1))
             last == ps[Len(ps)]
             k == Cardinality({ i \in 1..Len(front) : front[i].y >= last.y })
         IN  SubSeq(front, 1, k) \o << last >>
                \o SubSeq(front, k + 1, Len(front))

\* PolyLine.add(point), point with both coordinates
Add(point) ==
    /\ adds < MaxAdds
    /\ adds' = adds + 1
    /\ added' = added \cup {point}
    /\ IF \E i \in 1..Len(points) : SamePoint(points[i], point)
       THEN UNCHANGED <<points, min_x, max_x, min_y, max_y>>
       ELSE /\ points' = IF Len(points) > 0
                         THEN SortByY(Append(points, point))
                         ELSE Append(points, point)
            /\ min_x' = PolyMin(min_x, point.x)
            /\ min_y' = PolyMin(min_y, point.y)
            /\ max_x' = PolyMax(max_x, point.x)
            /\ max_y' = PolyMax(max_y, point.y)
    /\ UNCHANGED <<coreVars, schedVars>>
    /\ UNCHANGED <<stopVars, regVars, orderVars, peerVars, retryVars,
                   sigVars, asyncVars, taskVars, deadlines, rmqVars>>

MoreInit ==
    /\ SigInit /\ AsyncInit /\ TaskInit
    /\ deadlines = [e \in Events |-> << >>]
    /\ routerBound = FALSE
    /\ helloLater = FALSE
    /\ PolyInit

ExtInit ==
    StopInit /\ RegInit /\ OrderInit /\ PeerInit /\ RetryInit /\ MoreInit

Init == CoreInit /\ SchedInit /\ ExtInit /\ bus = "zmq"

(***************************************************************************)
(* Core.register                                                           *)
(***************************************************************************)
\* the error handler a subsystem passes to register (e.g. PeerList passes
\* its _handle_error)
ErrorHandlerOf(name) ==
    CASE name = "hello" -> "hello_onerror"
      [] name = "pubsub" -> "pubsub_onerror"
      [] name = "peerlist" -> "peerlist_onerror"
      [] OTHER -> "onerror"

\* register(name, handler, error_handler): error_handler = NoHandler stands
\* for the default None
Register(name, handler, error_handler) ==
    /\ runPc = "init"
    /\ error_handler # NoHandler =>
            Len(error_handlers[name]) < MaxErrorHandlers
    /\ subsystems' = [subsystems EXCEPT ![name] = handler]
    /\ error_handlers' =
          IF error_handler # NoHandler
          THEN [error_handlers EXCEPT ![name] = Append(@, error_handler)]
          ELSE error_handlers
    /\ firstHandler' = IF firstHandler[name] = NoHandler
                       THEN [firstHandler EXCEPT ![name] = handler]
                       ELSE firstHandler
    /\ UNCHANGED <<address, runPc, stop_event, socketOpen, vipLoop, linkUp,
                   connected, helloCount, ident, hello_response_event,
                   running_event, checks, welcomed, onstartTasks,
                   onstopTasks, trace, answered>>
    /\ Quiet
    /\ UNCHANGED schedVars
    /\ UNCHANGED <<stopVars, orderVars, peerVars, retryVars, moreVars>>

(***************************************************************************)
(* BasicCore.run, one action per stretch between suspension points.        *)
(***************************************************************************)
\* run up to the first next(looper): the stop event is created and
\* ZMQCore.loop opens the connection (pre-setup).
RunPreSetup ==
    /\ runPc = "init"
    /\ runPc' = "presetup"
    /\ socketOpen' = TRUE
    /\ trace' = Note(trace, "open")
    /\ UNCHANGED <<address, stop_event, vipLoop, linkUp, connected,
                   helloCount, ident, hello_response_event, running_event,
                   checks, welcomed, subsystems, onstartTasks, onstopTasks,
                   answered>>
    /\ Quiet
    /\ UNCHANGED schedVars
    /\ UNCHANGED extVars

\* self.onsetup.send(self)
RunOnSetup ==
    /\ runPc = "presetup"
    /\ runPc' = "setup"
    /\ trace' = Note(trace, "onsetup")
    /\ UNCHANGED <<address, stop_event, socketOpen, vipLoop, linkUp,
                   connected, helloCount, ident, hello_response_event,
                   running_event, checks, welcomed, subsystems,
                   onstartTasks, onstopTasks, answered>>
    /\ Quiet
    /\ UNCHANGED schedVars
    /\ UNCHANGED extVars

\* loop = next(looper): ZMQCore.loop pre-start.  The monitor is spawned for
\* tcp/ipc addresses, the socket connects, an inproc address says hello at
\* once, and the vip_loop greenlet is spawned.
RunPreStart ==
    /\ runPc = "setup"
    /\ runPc' = "prestart"
    /\ vipLoop' = "running"
    /\ trace' = Note(trace, "spawnloop")
    /\ IF address = "inproc"
       THEN /\ ident' = HelloIdent(helloCount)
            /\ helloCount' = helloCount + 1
            /\ checks' = [checks EXCEPT ![helloCount] = "waiting"]
            /\ out' = << HelloFrame(helloCount) >>
       ELSE /\ out' = << >>
            /\ UNCHANGED <<ident, helloCount, checks>>
    /\ recv' = NoFrame
    /\ invoked' = << >>
    /\ UNCHANGED <<address, stop_event, socketOpen, linkUp, connected,
                   hello_response_event, running_event, welcomed,
                   subsystems, onstartTasks, onstopTasks, answered>>
    /\ UNCHANGED schedVars
    /\ UNCHANGED extVars

\* the scheduler greenlet is created; onstart and the running event are
\* released here unless the class delays them.
RunStart ==
    /\ runPc = "prestart"
    /\ runPc' = "waiting"
    /\ IF ~delay_onstart_signal
       THEN /\ onstartTasks' = SpawnReceivers(onstartTasks, NumOnstart)
            /\ trace' = Note(trace, "onstart")
       ELSE UNCHANGED <<onstartTasks, trace>>
    /\ running_event' = IF ~delay_running_event_set
                        THEN SetRunning(running_event) ELSE running_event
    /\ UNCHANGED <<address, stop_event, socketOpen, vipLoop, linkUp,
                   connected, helloCount, ident, hello_response_event,
                   checks, welcomed, subsystems, onstopTasks, answered>>
    /\ Quiet
    /\ UNCHANGED schedVars
    /\ UNCHANGED extVars

\* stop.wait() returned: scheduler.kill(), next(looper) (pre-stop) and
\* receivers = self.onstop.sendby(self.link_receiver, self)
RunStopActed ==
    /\ runPc = "waiting"
    /\ ~LoopEndedFirst
    /\ StopWaitOver
    /\ runPc' = "joining"
    /\ onstopTasks' = SpawnReceivers(onstopTasks, NumOnstop)
    /\ trace' = Note(Note(trace, "stopacted"), "onstop")
    /\ UNCHANGED <<address, stop_event, socketOpen, vipLoop, linkUp,
                   connected, helloCount, ident, hello_response_event,
                   running_event, checks, welcomed, subsystems,
                   onstartTasks, answered>>
    /\ Quiet
    /\ UNCHANGED schedVars
    /\ UNCHANGED extVars

\* gevent.wait(receivers) returned; next(looper) runs ZMQCore.loop
\* pre-finish: disconnect and close the connection.
RunPreFinish ==
    /\ runPc = "joining"
    /\ OnstopJoined
    /\ runPc' = "prefinish"
    /\ socketOpen' = CloseConnection(socketOpen)
    /\ trace' = Note(trace, "close")
    /\ UNCHANGED <<address, stop_event, vipLoop, linkUp, connected,
                   helloCount, ident, hello_response_event, running_event,
                   checks, welcomed, subsystems, onstartTasks, onstopTasks,
                   answered>>
    /\ Quiet
    /\ UNCHANGED schedVars
    /\ UNCHANGED extVars

\* self.onfinish.send(self)
RunOnFinish ==
    /\ runPc = "prefinish"
    /\ runPc' = "finished"
    /\ trace' = Note(trace, "onfinish")
    /\ UNCHANGED <<address, stop_event, socketOpen, vipLoop, linkUp,
                   connected, helloCount, ident, hello_response_event,
                   running_event, checks, welcomed, subsystems,
                   onstartTasks, onstopTasks, answered>>
    /\ Quiet
    /\ UNCHANGED schedVars
    /\ UNCHANGED extVars

\* kill_leftover_greenlets on the greenlets handle_async_ spawned: one not
\* yet started never runs, one whose func waits gets GreenletExit raised in
\* func; a finished one is left alone
KillLeftoverWorkers ==
    /\ worker' = [c \in DOMAIN worker |->
                    IF worker[c] \in {"spawned", "running"}
                    THEN "killed" ELSE worker[c]]
    /\ callback' = [c \in DOMAIN callback |->
                      IF worker[c] = "running"
                         /\ callback[c] \in {"running", "blocked"}
                      THEN "exited" ELSE callback[c]]
    /\ UNCHANGED <<async_calls, asyncSent, handle_async, callKind, producer,
                   spawnedFor, resultFlag, future, futureSets>>

\* variant: only the greenlets that have started are killed
KillLeftoverTasks_StartedOnly ==
    /\ greenlets' = [t \in DOMAIN greenlets |->
                   IF t \in tracked /\ greenlets[t] = "running"
                   THEN "killed" ELSE greenlets[t]]
    /\ UNCHANGED <<taskVia, tracked, spawnedLate, steppedLate>>

\* kill_leftover_greenlets on the greenlets of spawn and spawn_later: kill
\* cancels the start of one that has not started and raises GreenletExit
\* in one that has
KillLeftoverTasks ==
    /\ greenlets' = [t \in DOMAIN greenlets |->
                   IF t \in tracked /\ greenlets[t] \in {"pending", "running"}
                   THEN "killed" ELSE greenlets[t]]
    /\ UNCHANGED <<taskVia, tracked, spawnedLate, steppedLate>>

\* run returns; the link on the run greenlet kills the leftover greenlets.
RunReturn ==
    /\ runPc = "finished"
    /\ runPc' = "returned"
    /\ trace' = Note(trace, "return")
    /\ vipLoop' = "killed"
    /\ checks' = [n \in DOMAIN checks |->
                    IF checks[n] = "waiting" THEN "killed" ELSE checks[n]]
    /\ onstartTasks' = 0
    /\ KillLeftoverWorkers
    /\ KillLeftoverTasks
    /\ UNCHANGED <<address, stop_event, socketOpen, linkUp, connected,
                   helloCount, ident, hello_response_event, running_event,
                   welcomed, subsystems, onstopTasks, answered>>
    /\ Quiet
    /\ UNCHANGED schedVars
    /\ UNCHANGED <<stopVars, regVars, orderVars, peerVars, retryVars,
                   sigVars, deadlines, lateVars>>

\* vip_loop: recv_vip_object raises ZMQError with ENOTSOCK: self.socket =
\* None and the loop is left, the greenlet ends.  Its link kills the
\* scheduler.  The wait of run is ended by the loop when the stop event was
\* not set before.
VipLoopEnds ==
    /\ vipLoop = "running"
    /\ runPc \in {"waiting", "joining"}
    /\ vipLoop' = IF runPc = "waiting" /\ ~stop_event
                  THEN "ended" ELSE "endedlate"
    /\ socketOpen' = FALSE
    /\ schedPc' = IF schedPc \in {"created", "running"}
                  THEN "killed" ELSE schedPc
    /\ spawnQ' = IF spawnQ = << >> \/ schedPc = "killed" THEN spawnQ
                 ELSE SubSeq(spawnQ, 1, Len(spawnQ) - 1)
    /\ UNCHANGED <<now, heap, tie_breaker, pushes, kinds, canceled, finished,
                   iters, calls, raised, periodicPc, periodicDeadline,
                   periodicRaised, started>>
    /\ UNCHANGED <<address, runPc, stop_event, linkUp, connected,
                   helloCount, ident, hello_response_event, running_event,
                   checks, welcomed, subsystems, onstartTasks, onstopTasks,
                   trace, answered>>
    /\ Quiet
    /\ UNCHANGED extVars

\* run: raise RuntimeError('VIP loop ended prematurely'); the exception is
\* not one of those caught around the wait and leaves run.  The links of
\* the run greenlet kill the leftover greenlets.
RunRaises ==
    /\ runPc = "waiting"
    /\ LoopEndedFirst
    /\ runPc' = "raised"
    /\ trace' = Note(trace, "raise")
    /\ checks' = [n \in DOMAIN checks |->
                    IF checks[n] = "waiting" THEN "killed" ELSE checks[n]]
    /\ onstartTasks' = 0
    /\ KillLeftoverWorkers
    /\ KillLeftoverTasks
    /\ UNCHANGED <<address, stop_event, socketOpen, vipLoop, linkUp,
                   connected, helloCount, ident, hello_response_event,
                   running_event, welcomed, subsystems, onstopTasks,
                   answered>>
    /\ Quiet
    /\ UNCHANGED schedVars
    /\ UNCHANGED <<stopVars, regVars, orderVars, peerVars, retryVars,
                   sigVars, deadlines, lateVars>>

\* one greenlet spawned for an onstop receiver runs to completion
OnstopTaskFinish ==
    /\ onstopTasks > 0
    /\ onstopTasks' = onstopTasks - 1
    /\ UNCHANGED <<address, runPc, stop_event, socketOpen, vipLoop, linkUp,
                   connected, helloCount, ident, hello_response_event,
                   running_event, checks, welcomed, subsystems,
                   onstartTasks, trace, answered>>
    /\ Quiet
    /\ UNCHANGED schedVars
    /\ UNCHANGED extVars

\* one greenlet spawned for an onstart receiver runs to completion
OnstartTaskFinish ==
    /\ onstartTasks > 0
    /\ onstartTasks' = onstartTasks - 1
    /\ UNCHANGED <<address, runPc, stop_event, socketOpen, vipLoop, linkUp,
                   connected, helloCount, ident, hello_response_event,
                   running_event, checks, welcomed, subsystems, onstopTasks,
                   trace, answered>>
    /\ Quiet
    /\ UNCHANGED schedVars
    /\ UNCHANGED extVars

(***************************************************************************)
(* ZMQCore.loop.monitor: socket events.                                    *)
(***************************************************************************)
\* the monitor greenlet reads socket events until it gives up: from then
\* on it is inside self.stop(), which joins the run greenlet
MonitorRunning ==
    /\ bus = "zmq"
    /\ address = "tcp" /\ vipLoop = "running" /\ socketOpen /\ ~gaveUp

\* create_event_handlers.hello, called when the transport has connected
Hello ==
    /\ ~linkUp
    /\ helloCount < MaxHello
    /\ linkUp' = TRUE
    /\ ident' = HelloIdent(helloCount)
    /\ helloCount' = helloCount + 1
    /\ checks' = [checks EXCEPT ![helloCount] = "waiting"]
    /\ out' = << HelloFrame(helloCount) >>
    /\ recv' = NoFrame
    /\ invoked' = << >>
    /\ UNCHANGED <<address, runPc, stop_event, socketOpen, vipLoop,
                   connected, hello_response_event, running_event, welcomed,
                   subsystems, onstartTasks, onstopTasks, trace, answered>>
    /\ consecutive' = 0
    /\ UNCHANGED <<reconnect_attempt, gaveUp>>
    /\ UNCHANGED schedVars
    /\ UNCHANGED <<stopVars, regVars, orderVars, peerVars, moreVars>>

\* EVENT_CONNECTED: hello()
MonitorConnected == MonitorRunning /\ Hello

\* the callbacks RMQCore.loop gives to connection.connect are called while
\* the connection exists and the runtime has not given up
RmqCallbacks ==
    bus = "rmq" /\ vipLoop = "running" /\ socketOpen /\ ~gaveUp

\* connect_callback: router_connected.  The loop over the bindings sets it
\* when the binding of the router is found, and the statement after the
\* loop sets it to True whatever the loop found.
RouterConnected(bound) == TRUE

\* connect_callback, the branch that waits for the router:
\* self.spawn_later(2, hello)
HelloLater ==
    /\ helloLater' = TRUE
    /\ UNCHANGED routerBound
    /\ UNCHANGED polyVars
    /\ Quiet
    /\ UNCHANGED <<address, runPc, stop_event, socketOpen, vipLoop, linkUp,
                   connected, helloCount, ident, hello_response_event,
                   running_event, checks, welcomed, subsystems,
                   onstartTasks, onstopTasks, trace, answered>>
    /\ UNCHANGED schedVars
    /\ UNCHANGED <<stopVars, regVars, orderVars, peerVars, retryVars,
                   sigVars, asyncVars, taskVars, deadlines>>

\* RMQCore.loop.connect_callback
RmqConnectCallback ==
    /\ RmqCallbacks
    /\ IF RouterConnected(routerBound) THEN Hello ELSE HelloLater

\* the router declares its queue and binds it at the broker
RouterBinds ==
    /\ bus = "rmq"
    /\ ~routerBound
    /\ routerBound' = TRUE
    /\ UNCHANGED helloLater
    /\ UNCHANGED polyVars
    /\ Quiet
    /\ UNCHANGED <<address, runPc, stop_event, socketOpen, vipLoop, linkUp,
                   connected, helloCount, ident, hello_response_event,
                   running_event, checks, welcomed, subsystems,
                   onstartTasks, onstopTasks, trace, answered>>
    /\ UNCHANGED schedVars
    /\ UNCHANGED <<stopVars, regVars, orderVars, peerVars, retryVars,
                   sigVars, asyncVars, taskVars, deadlines>>

\* EVENT_DISCONNECTED: self.connected = False
MonitorDisconnected ==
    /\ MonitorRunning
    /\ linkUp
    /\ linkUp' = FALSE
    /\ connected' = FALSE
    /\ pendingAtDrop' = pendingAtDrop \cup
          { k \in DOMAIN results :
                results[k] = "pending" /\ k \notin sendFailed }
    /\ UNCHANGED <<address, runPc, stop_event, socketOpen, vipLoop,
                   helloCount, ident, hello_response_event, running_event,
                   checks, welcomed, subsystems, onstartTasks, onstopTasks,
                   trace, answered>>
    /\ Quiet
    /\ UNCHANGED schedVars
    /\ UNCHANGED <<stopVars, regVars, orderVars, retryVars, moreVars>>
    /\ UNCHANGED <<results, table, completions, peers_list, sendFailed>>

\* the ceiling of the reconnect counter
RetryCeiling == 50

\* EVENT_CONNECT_RETRIED: the counter goes up by one; when it equals the
\* ceiling the monitor sets connected to False and calls self.stop(), which
\* sends no agentstop frame as connected is False by then and returns once
\* run has returned; ondisconnected is sent after that, when the pre-finish
\* step of run has closed the socket already.
GiveUp ==
    /\ gaveUp' = TRUE
    /\ connected' = FALSE
    /\ stop_event' = Halt(stop_event)
    /\ trace' = Note(trace, "stopreq")
    /\ out' = AgentStopFrames(FALSE, FALSE)

MonitorRetried ==
    /\ MonitorRunning
    /\ ~linkUp
    /\ reconnect_attempt' = reconnect_attempt + 1
    /\ consecutive' = consecutive + 1
    /\ IF reconnect_attempt + 1 = RetryCeiling
       THEN GiveUp
       ELSE /\ out' = << >>
            /\ UNCHANGED <<gaveUp, connected, stop_event, trace>>
    /\ recv' = NoFrame
    /\ invoked' = << >>
    /\ UNCHANGED <<address, runPc, socketOpen, vipLoop, linkUp, helloCount,
                   ident, hello_response_event, running_event, checks,
                   welcomed, subsystems, onstartTasks, onstopTasks,
                   answered>>
    /\ UNCHANGED schedVars
    /\ UNCHANGED <<stopVars, regVars, orderVars, peerVars, moreVars>>

\* RMQCore.loop.connection_error, up to the join inside self.stop()
RmqConnectionError ==
    /\ RmqCallbacks
    /\ GiveUp
    /\ linkUp' = FALSE
    /\ recv' = NoFrame
    /\ invoked' = << >>
    /\ UNCHANGED <<address, runPc, socketOpen, vipLoop, helloCount, ident,
                   hello_response_event, running_event, checks, welcomed,
                   subsystems, onstartTasks, onstopTasks, answered>>
    /\ UNCHANGED <<reconnect_attempt, consecutive>>
    /\ UNCHANGED schedVars
    /\ UNCHANGED <<stopVars, regVars, orderVars, peerVars, moreVars>>

\* variant: the greenlet that waits in self.stop() is killed with the
\* leftover greenlets before its join returns
ResumedAfterJoin_KilledFirst == FALSE

\* The join inside stop ends when the run greenlet has finished.  The
\* waiter of a join is switched to while the links of the finished greenlet
\* are notified; the kills of kill_leftover_greenlets are thrown by later
\* callbacks of the hub, so the greenlet that called stop goes on.
ResumedAfterJoin == TRUE

\* the receiver the loop connects to ondisconnected
DisconnectedReceiver ==
    IF bus = "zmq" THEN "close_socket" ELSE "close_connection"

\* self.stop() returns in the monitor (or in connection_error), which then
\* sends ondisconnected
MonitorStopReturns ==
    /\ gaveUp
    /\ runPc = "returned"
    /\ ResumedAfterJoin
    /\ ondisconnectedSent = 0
    /\ ondisconnectedSent' = ondisconnectedSent + 1
    /\ invoked' = << DisconnectedReceiver >>
    /\ recv' = NoFrame
    /\ out' = << >>
    /\ UNCHANGED <<address, runPc, stop_event, socketOpen, vipLoop, linkUp,
                   connected, helloCount, ident, hello_response_event,
                   running_event, checks, welcomed, subsystems,
                   onstartTasks, onstopTasks, trace, answered>>
    /\ UNCHANGED onconnectedSent
    /\ UNCHANGED schedVars
    /\ UNCHANGED <<stopVars, regVars, orderVars, peerVars, retryVars>>
    /\ UNCHANGED asyncVars
    /\ UNCHANGED taskVars
    /\ UNCHANGED deadlines
    /\ UNCHANGED lateVars

(***************************************************************************)
(* ZMQCore.loop.vip_loop: one frame.                                       *)
(***************************************************************************)
\* the welcome branch with hello_response, the receiver of onconnected
VipWelcome(m) ==
    /\ connected' = TRUE
    /\ onconnectedSent' = onconnectedSent + 1
    /\ hello_response_event' = TRUE
    /\ onstartTasks' = SpawnReceivers(onstartTasks, NumOnstart)
    /\ running_event' = SetRunning(running_event)
    /\ welcomed' = welcomed \cup {HelloNumber(m.id)}
    /\ trace' = Note(Note(trace, "welcome"), "onstart")
    /\ out' = << >>
    /\ invoked' = << >>

\* VIPError.from_errno(errnum, msg, peer, subsystem): error.subsystem
ErrorSubsystem(args) == args[4]

\* register.onerror: the receivers of onviperror that pass the error on,
\* those registered under the name error.subsystem
OnViperror(subsystem) ==
    IF subsystem \in SubsystemNames THEN error_handlers[subsystem] ELSE << >>

\* Core.handle_error: the error handlers invoked for an error frame
HandleError(m) ==
    IF Len(m.args) < 4 THEN << >> ELSE OnViperror(ErrorSubsystem(m.args))

\* handle(message): the handlers invoked, in order
Handle(handler, m) ==
    IF handler = "handle_error"
    THEN << handler >> \o HandleError(m)
    ELSE << handler >>

\* the registry lookup and its KeyError branch
VipDispatch(m) ==
    /\ IF subsystems[m.subsystem] = NoHandler
       THEN /\ out' = << ErrorReply(m) >>
            /\ invoked' = << >>
       ELSE /\ invoked' = Handle(subsystems[m.subsystem], m)
            /\ out' = << >>
    /\ UNCHANGED <<connected, hello_response_event, onstartTasks,
                   running_event, welcomed, trace, onconnectedSent>>

(***************************************************************************)
(* PeerList                                                                *)
(***************************************************************************)
\* variant: the entry is looked up and left in the table
Pop_Keep(t, k) == t

\* self._results.pop(message.id): the table without the entry
Pop(t, k) == t \ {k}

\* the pop of message.id succeeded: result.set / result.set_exception
Complete(k, outcome) ==
    /\ table' = Pop(table, k)
    /\ results' = [results EXCEPT ![k] = outcome]
    /\ completions' = [completions EXCEPT ![k] = @ + 1]

\* variant: the peers are taken from the third argument on
PeersOf_SkipFirst(args) == { args[i] : i \in 3..Len(args) }

\* peers = [arg for arg in message.args[1:]]; set(peers)
PeersOf(args) == { args[i] : i \in 2..Len(args) }

\* message.args[0], None standing for the IndexError of an empty list
OpOf(args) == IF Len(args) = 0 THEN "None" ELSE args[1]

\* PeerList._handle_subsystem
HandleSubsystem(m) ==
    LET op == OpOf(m.args)
        k == ResultOf(m.id)
    IN  /\ CASE op \in {"add", "drop"} ->
                 /\ peers_list' = IF Len(m.args) < 2 THEN peers_list
                                  ELSE IF op = "add"
                                  THEN peers_list \cup {m.args[2]}
                                  ELSE peers_list \ {m.args[2]}
                 /\ UNCHANGED <<results, table, completions>>
             [] op = "listing" ->
                 IF k \in table
                 THEN /\ Complete(k, "value")
                      /\ peers_list' = PeersOf(m.args)
                 ELSE UNCHANGED <<results, table, completions, peers_list>>
             [] op = "listing_with_messagebus" ->
                 /\ IF k \in table
                    THEN Complete(k, "value")
                    ELSE UNCHANGED <<results, table, completions>>
                 /\ UNCHANGED peers_list
             [] OTHER ->
                 UNCHANGED <<results, table, completions, peers_list>>
        /\ UNCHANGED <<sendFailed, pendingAtDrop>>

\* PeerList._handle_error
HandlePeerError(m) ==
    LET k == ResultOf(m.id)
    IN  /\ IF k \in table
           THEN Complete(k, "error")
           ELSE UNCHANGED <<results, table, completions>>
        /\ UNCHANGED <<peers_list, sendFailed, pendingAtDrop>>

\* what the handlers vip_loop invokes for m do to the PeerList
PeerListHandle(m) ==
    LET hs == IF IsWelcome(m, ident) \/ subsystems[m.subsystem] = NoHandler
              THEN << >>
              ELSE Handle(subsystems[m.subsystem], m)
        called == { hs[i] : i \in 1..Len(hs) }
    IN  IF "peerlist_handle_subsystem" \in called
        THEN HandleSubsystem(m)
        ELSE IF "peerlist_onerror" \in called
             THEN HandlePeerError(m)
             ELSE UNCHANGED peerVars

\* the send of a request on a closed socket raises ZMQError(ENOTSOCK)
SendRaises == ~socketOpen

\* PeerList.list, add_peer, drop_peer and list_with_messagebus: op is the
\* first argument of the request
PeerListRequest(op) ==
    /\ subsystems["peerlist"] = "peerlist_handle_subsystem"
    /\ runPc \notin {"init"}
    /\ \E k \in ResultIds :
        /\ results[k] = "none"
        /\ \A j \in ResultIds : j < k => results[j] # "none"
        /\ results' = [results EXCEPT ![k] = "pending"]
        /\ table' = table \cup {k}
        /\ IF SendRaises
           THEN /\ sendFailed' = sendFailed \cup {k}
                /\ out' = << >>
           ELSE /\ sendFailed' = sendFailed
                /\ out' = << Message("", "peerlist", ResultIdent(k), "",
                                     IF op \in {"add", "drop"}
                                     THEN <<op, "peerB", "zmq">>
                                     ELSE <<op>>) >>
    /\ recv' = NoFrame
    /\ invoked' = << >>
    /\ UNCHANGED <<completions, peers_list, pendingAtDrop>>
    /\ UNCHANGED <<address, runPc, stop_event, socketOpen, vipLoop, linkUp,
                   connected, helloCount, ident, hello_response_event,
                   running_event, checks, welcomed, subsystems,
                   onstartTasks, onstopTasks, trace, answered>>
    /\ UNCHANGED schedVars
    /\ UNCHANGED <<stopVars, regVars, orderVars, retryVars, moreVars>>

\* The router answers a hello at most once, and only a hello that was sent.
RouterMaySend(m) ==
    (m.subsystem = "hello" /\ m.args = WelcomeArgs) =>
        \E n \in 0..(helloCount - 1) :
            m.id = HelloIdent(n) /\ n \notin answered

VipLoopRecv(m) ==
    /\ vipLoop = "running"
    /\ socketOpen
    /\ RouterMaySend(m)
    /\ recv' = m
    /\ answered' = IF m.subsystem = "hello" /\ m.args = WelcomeArgs
                    THEN answered \cup {HelloNumber(m.id)} ELSE answered
    /\ IF IsWelcome(m, ident) THEN VipWelcome(m) ELSE VipDispatch(m)
    /\ PeerListHandle(m)
    /\ UNCHANGED <<address, runPc, stop_event, socketOpen, vipLoop, linkUp,
                   helloCount, ident, checks, subsystems, onstopTasks>>
    /\ UNCHANGED schedVars
    /\ UNCHANGED <<stopVars, regVars, orderVars, retryVars>>
    /\ UNCHANGED ondisconnectedSent
    /\ UNCHANGED asyncVars
    /\ UNCHANGED taskVars
    /\ UNCHANGED deadlines
    /\ UNCHANGED lateVars

(***************************************************************************)
(* create_event_handlers.connection_failed_check, spawned by each hello.   *)
(***************************************************************************)
\* hello_response_event.wait(10.0) returned True
CheckReturn(n) ==
    /\ checks[n] = "waiting"
    /\ hello_response_event
    /\ checks' = [checks EXCEPT ![n] = "returned"]
    /\ UNCHANGED <<address, runPc, stop_event, socketOpen, vipLoop, linkUp,
                   connected, helloCount, ident, hello_response_event,
                   running_event, welcomed, subsystems, onstartTasks,
                   onstopTasks, trace, answered>>
    /\ Quiet
    /\ UNCHANGED schedVars
    /\ UNCHANGED extVars

\* the wait timed out: self.stop(timeout=10.0)
CheckTimeout(n) ==
    /\ checks[n] = "waiting"
    /\ ~hello_response_event
    /\ checks' = [checks EXCEPT ![n] = "stopped"]
    /\ out' = AgentStopFrames(connected, FALSE)
    /\ recv' = NoFrame
    /\ invoked' = << >>
    /\ stop_event' = Halt(stop_event)
    /\ trace' = Note(trace, "stopreq")
    /\ UNCHANGED <<address, runPc, socketOpen, vipLoop, linkUp, connected,
                   helloCount, ident, hello_response_event, running_event,
                   welcomed, subsystems, onstartTasks, onstopTasks,
                   answered>>
    /\ UNCHANGED schedVars
    /\ UNCHANGED extVars

(***************************************************************************)
(* Core.stop called by the agent's own code or its owner.                  *)
(***************************************************************************)
Stop(platform_shutdown) ==
    /\ runPc \in {"presetup", "setup", "prestart", "waiting", "joining"}
    /\ out' = AgentStopFrames(connected, platform_shutdown)
    /\ recv' = NoFrame
    /\ invoked' = << >>
    /\ stop_event' = Halt(stop_event)
    /\ trace' = Note(trace, "stopreq")
    /\ UNCHANGED <<address, runPc, socketOpen, vipLoop, linkUp, connected,
                   helloCount, ident, hello_response_event, running_event,
                   checks, welcomed, subsystems, onstartTasks, onstopTasks,
                   answered>>
    /\ UNCHANGED schedVars
    /\ UNCHANGED extVars

(***************************************************************************)
(* stop(timeout) seen from its caller: the request, then the join of the   *)
(* run greenlet, which ends when run has returned or the timeout elapsed.  *)
(***************************************************************************)
\* BasicCore.stop: halt returns self.greenlet.ready()
BasicStopResult(ready) == IF ready THEN "True" ELSE "False"

\* Core.stop: the result of BasicCore.stop is dropped, the method ends
\* without a return statement
CoreStopResult(basic) == "None"

\* Core.stop up to self.greenlet.join(timeout)
StopCall(platform_shutdown) ==
    /\ stopCall = "idle"
    /\ runPc \in {"presetup", "setup", "prestart", "waiting", "joining"}
    /\ stopCall' = "joining"
    /\ out' = AgentStopFrames(connected, platform_shutdown)
    /\ recv' = NoFrame
    /\ invoked' = << >>
    /\ stop_event' = Halt(stop_event)
    /\ trace' = Note(trace, "stopreq")
    /\ UNCHANGED <<address, runPc, socketOpen, vipLoop, linkUp, connected,
                   helloCount, ident, hello_response_event, running_event,
                   checks, welcomed, subsystems, onstartTasks, onstopTasks,
                   answered>>
    /\ UNCHANGED stopResult
    /\ UNCHANGED schedVars
    /\ UNCHANGED <<regVars, orderVars, peerVars, retryVars, moreVars>>

\* join(timeout) is over, because run has returned or because the timeout
\* elapsed (timedOut): halt returns ready() and Core.stop returns
StopReturn(timedOut) ==
    /\ stopCall = "joining"
    /\ runPc = "returned" \/ timedOut
    /\ stopCall' = "returned"
    /\ LET ready == runPc = "returned" IN
        stopResult' = [ready |-> ready,
                       basic |-> BasicStopResult(ready),
                       core |-> CoreStopResult(BasicStopResult(ready))]
    /\ Quiet
    /\ UNCHANGED <<address, runPc, stop_event, socketOpen, vipLoop, linkUp,
                   connected, helloCount, ident, hello_response_event,
                   running_event, checks, welcomed, subsystems,
                   onstartTasks, onstopTasks, trace, answered>>
    /\ UNCHANGED schedVars
    /\ UNCHANGED <<regVars, orderVars, peerVars, retryVars, moreVars>>

(***************************************************************************)
(* BasicCore.send, send_async, spawn_in_thread and run.handle_async_.      *)
(* The submitters are threads other than the one of the runtime's hub;     *)
(* handle_async_ and the greenlets it spawns run in the hub.               *)
(***************************************************************************)
\* the variables of the lifecycle that a step outside it leaves alone
lifeVars == <<address, runPc, stop_event, socketOpen, vipLoop, linkUp,
              connected, helloCount, ident, hello_response_event,
              running_event, checks, welcomed, answered, subsystems,
              onstartTasks, onstopTasks, trace>>

notAsync == <<lifeVars, schedVars, stopVars, regVars, orderVars, peerVars,
              retryVars, sigVars, taskVars, deadlines, lateVars>>

\* self._async exists and is started: from the first stretch of run until
\* the link of the run greenlet stops it
AsyncStarted == runPc \notin {"init", "returned"}

\* variant: the watcher is signalled before the call is appended
SendSteps_SendFirst == <<"send", "append">>

\* send: self._async_calls.append(...), then self._async.send()
SendSteps == <<"append", "send">>

\* the next call to be made
NextCall(c) ==
    /\ callKind[c] = "none"
    /\ \A j \in Calls : j < c => callKind[j] # "none"

\* send(func, ...) called by a thread, up to the first statement of send
SendCall(c) ==
    /\ AsyncStarted
    /\ NextCall(c)
    /\ callKind' = [callKind EXCEPT ![c] = "send"]
    /\ producer' = [producer EXCEPT ![c] = "first"]
    /\ UNCHANGED <<async_calls, asyncSent, handle_async, spawnedFor, worker,
                   callback, resultFlag, future, futureSets>>
    /\ Quiet
    /\ UNCHANGED notAsync

\* send_async(func, ...) called by a thread: the result and its watcher are
\* made, receiver is started on the watcher, then self.send(worker)
SendAsyncCall(c) ==
    /\ AsyncStarted
    /\ NextCall(c)
    /\ callKind' = [callKind EXCEPT ![c] = "send_async"]
    /\ producer' = [producer EXCEPT ![c] = "first"]
    /\ future' = [future EXCEPT ![c] = "pending"]
    /\ UNCHANGED <<async_calls, asyncSent, handle_async, spawnedFor, worker,
                   callback, resultFlag, futureSets>>
    /\ Quiet
    /\ UNCHANGED notAsync

\* spawn_in_thread(func, ...): the thread is started and runs wrapper, which
\* calls func
SpawnInThread(c) ==
    /\ AsyncStarted
    /\ NextCall(c)
    /\ callKind' = [callKind EXCEPT ![c] = "spawn_in_thread"]
    /\ producer' = [producer EXCEPT ![c] = "func"]
    /\ callback' = [callback EXCEPT ![c] = "running"]
    /\ future' = [future EXCEPT ![c] = "pending"]
    /\ UNCHANGED <<async_calls, asyncSent, handle_async, spawnedFor, worker,
                   resultFlag, futureSets>>
    /\ Quiet
    /\ UNCHANGED notAsync

\* func enters a call that does not yield to the hub
FuncBlocks(c) ==
    /\ callback[c] = "running"
    /\ callback' = [callback EXCEPT ![c] = "blocked"]
    /\ UNCHANGED <<async_calls, asyncSent, handle_async, callKind, producer,
                   spawnedFor, worker, resultFlag, future, futureSets>>
    /\ Quiet
    /\ UNCHANGED notAsync

\* wrapper of spawn_in_thread: func has ended; an Exception or a return
\* value is passed on with self.send, anything else ends the thread
ThreadFuncEnd(c, outcome) ==
    /\ producer[c] = "func"
    /\ callback' = [callback EXCEPT ![c] = outcome]
    /\ producer' = [producer EXCEPT ![c] =
                        IF outcome = "exited" THEN "dead" ELSE "first"]
    /\ UNCHANGED <<async_calls, asyncSent, handle_async, callKind,
                   spawnedFor, worker, resultFlag, future, futureSets>>
    /\ Quiet
    /\ UNCHANGED notAsync

\* one statement of send
SendStatement(step, c) ==
    IF step = "append"
    THEN /\ async_calls' = Append(async_calls, c)
         /\ UNCHANGED asyncSent
    ELSE /\ asyncSent' = TRUE
         /\ UNCHANGED async_calls

\* the submitter of c executes its next statement of send
ProducerStep(c) ==
    /\ producer[c] \in {"first", "second"}
    /\ IF producer[c] = "first"
       THEN /\ SendStatement(SendSteps[1], c)
            /\ producer' = [producer EXCEPT ![c] = "second"]
       ELSE /\ SendStatement(SendSteps[2], c)
            /\ producer' = [producer EXCEPT ![c] = "done"]
    /\ UNCHANGED <<handle_async, callKind, spawnedFor, worker, callback,
                   resultFlag, future, futureSets>>
    /\ Quiet
    /\ UNCHANGED notAsync

\* the hub delivers the send of self._async: handle_async_ is entered
HandleAsyncBegin ==
    /\ AsyncStarted
    /\ asyncSent
    /\ handle_async = "idle"
    /\ asyncSent' = FALSE
    /\ handle_async' = "test"
    /\ UNCHANGED <<async_calls, callKind, producer, spawnedFor, worker,
                   callback, resultFlag, future, futureSets>>
    /\ Quiet
    /\ UNCHANGED notAsync

\* while calls:
HandleAsyncTest ==
    /\ handle_async = "test"
    /\ handle_async' = IF async_calls = << >> THEN "idle" ELSE "pop"
    /\ UNCHANGED <<async_calls, asyncSent, callKind, producer, spawnedFor,
                   worker, callback, resultFlag, future, futureSets>>
    /\ Quiet
    /\ UNCHANGED notAsync

\* calls.pop(), gevent.spawn(func, ...), spawned_greenlets.add(greenlet)
HandleAsyncPop ==
    /\ handle_async = "pop"
    /\ LET c == async_calls[Len(async_calls)] IN
        /\ async_calls' = SubSeq(async_calls, 1, Len(async_calls) - 1)
        /\ spawnedFor' = [spawnedFor EXCEPT ![c] = @ + 1]
        /\ worker' = [worker EXCEPT ![c] = "spawned"]
    /\ handle_async' = "test"
    /\ UNCHANGED <<asyncSent, callKind, producer, callback, resultFlag,
                   future, futureSets>>
    /\ Quiet
    /\ UNCHANGED notAsync

\* result.set / result.set_exception on the result of c
SetFuture(c, outcome) ==
    /\ future' = [future EXCEPT ![c] =
                      IF outcome = "returned" THEN "value" ELSE "exception"]
    /\ futureSets' = [futureSets EXCEPT ![c] = @ + 1]

\* the greenlet spawned for c starts.  For send and send_async it calls
\* func (inside worker for send_async); for spawn_in_thread the call is
\* result.set or result.set_exception, which ends at once.
WorkerStart(c) ==
    /\ worker[c] = "spawned"
    /\ IF callKind[c] = "spawn_in_thread"
       THEN /\ worker' = [worker EXCEPT ![c] = "done"]
            /\ SetFuture(c, callback[c])
            /\ UNCHANGED callback
       ELSE /\ worker' = [worker EXCEPT ![c] = "running"]
            /\ callback' = [callback EXCEPT ![c] = "running"]
            /\ UNCHANGED <<future, futureSets>>
    /\ UNCHANGED <<async_calls, asyncSent, handle_async, callKind, producer,
                   spawnedFor, resultFlag>>
    /\ Quiet
    /\ UNCHANGED notAsync

\* func ends in the greenlet spawned for c.  worker of send_async stores
\* the value or the Exception in results and signals the watcher of the
\* caller; any other exception passes through worker and ends the greenlet.
WorkerFuncEnd(c, outcome) ==
    /\ worker[c] = "running"
    /\ callback[c] \in {"running", "blocked"}
    /\ callback' = [callback EXCEPT ![c] = outcome]
    /\ worker' = [worker EXCEPT ![c] = "done"]
    /\ resultFlag' = [resultFlag EXCEPT ![c] =
                          callKind[c] = "send_async" /\ outcome # "exited"]
    /\ UNCHANGED <<async_calls, asyncSent, handle_async, callKind, producer,
                   spawnedFor, future, futureSets>>
    /\ Quiet
    /\ UNCHANGED notAsync

\* send_async.receiver, in the hub of the caller
Receiver(c) ==
    /\ resultFlag[c]
    /\ resultFlag' = [resultFlag EXCEPT ![c] = FALSE]
    /\ SetFuture(c, callback[c])
    /\ UNCHANGED <<async_calls, asyncSent, handle_async, callKind, producer,
                   spawnedFor, worker, callback>>
    /\ Quiet
    /\ UNCHANGED notAsync

(***************************************************************************)
(* Specification of the lifecycle, handshake and dispatch.                 *)
(***************************************************************************)
\* the steps of an agent whose run() has been called
NextRun ==
    \/ RunPreSetup
    \/ RunOnSetup
    \/ RunPreStart
    \/ RunStart
    \/ RunStopActed
    \/ RunPreFinish
    \/ RunOnFinish
    \/ RunReturn
    \/ OnstartTaskFinish
    \/ OnstopTaskFinish
    \/ MonitorConnected
    \/ MonitorDisconnected
    \/ \E m \in HelloFrames : VipLoopRecv(m)
    \/ \E n \in 0..(MaxHello - 1) : CheckReturn(n)
    \/ \E n \in 0..(MaxHello - 1) : CheckTimeout(n)
    \/ \E ps \in BOOLEAN : Stop(ps)

Next ==
    \/ Register("hello", "h1", NoHandler)
    \/ NextRun

Spec == Init /\ [][Next]_vars

(***************************************************************************)
(* The same actions with every frame a peer may send, for an agent on an    *)
(* inproc address (no monitor greenlet).                                   *)
(***************************************************************************)
InitDispatch == Init /\ address = "inproc" /\ running_event = "none"

NextDispatch ==
    \/ \E name \in {"hello", "pubsub"} : Register(name, "h1", NoHandler)
    \/ RunPreSetup
    \/ RunOnSetup
    \/ RunPreStart
    \/ RunStart
    \/ RunStopActed
    \/ RunPreFinish
    \/ RunOnFinish
    \/ RunReturn
    \/ OnstartTaskFinish
    \/ OnstopTaskFinish
    \/ \E m \in InboundFrames : VipLoopRecv(m)
    \/ \E n \in 0..(MaxHello - 1) : CheckReturn(n)
    \/ \E n \in 0..(MaxHello - 1) : CheckTimeout(n)
    \/ \E ps \in BOOLEAN : Stop(ps)

SpecDispatch == InitDispatch /\ [][NextDispatch]_vars

(***************************************************************************)
(* An agent on an inproc address whose subsystems register handlers and    *)
(* error handlers and which receives error frames.                         *)
(***************************************************************************)
NextRegistry ==
    \/ \E name \in {"hello", "pubsub"}, handler \in {"h1", "h2"},
          eh \in BOOLEAN :
            Register(name, handler,
                     IF eh THEN ErrorHandlerOf(name) ELSE NoHandler)
    \/ RunPreSetup
    \/ RunOnSetup
    \/ RunPreStart
    \/ RunStart
    \/ RunStopActed
    \/ RunPreFinish
    \/ RunOnFinish
    \/ RunReturn
    \/ OnstartTaskFinish
    \/ OnstopTaskFinish
    \/ \E m \in HelloFrames \cup ErrorFrames : VipLoopRecv(m)
    \/ \E n \in 0..(MaxHello - 1) : CheckReturn(n)
    \/ \E n \in 0..(MaxHello - 1) : CheckTimeout(n)
    \/ \E ps \in BOOLEAN : Stop(ps)

SpecRegistry == InitDispatch /\ [][NextRegistry]_vars

(***************************************************************************)
(* An agent on an inproc address whose owner calls stop with a timeout.    *)
(***************************************************************************)
NextStop ==
    \/ RunPreSetup
    \/ RunOnSetup
    \/ RunPreStart
    \/ RunStart
    \/ RunStopActed
    \/ RunPreFinish
    \/ RunOnFinish
    \/ RunReturn
    \/ OnstartTaskFinish
    \/ OnstopTaskFinish
    \/ \E m \in HelloFrames : VipLoopRecv(m)
    \/ \E n \in 0..(MaxHello - 1) : CheckReturn(n)
    \/ \E n \in 0..(MaxHello - 1) : CheckTimeout(n)
    \/ \E ps \in BOOLEAN : StopCall(ps)
    \/ \E timedOut \in BOOLEAN : StopReturn(timedOut)

SpecStop == InitDispatch /\ [][NextStop]_vars

(***************************************************************************)
(* Fairness: gevent runs every greenlet that is ready, timers expire, and  *)
(* the receivers of onstop terminate.  The agent of FairSpec has no        *)
(* running event and registers no handler of its own.                      *)
(***************************************************************************)
\* one step of the run greenlet
RunStep ==
    \/ RunPreSetup
    \/ RunOnSetup
    \/ RunPreStart
    \/ RunStart
    \/ RunStopActed
    \/ RunPreFinish
    \/ RunOnFinish
    \/ RunReturn

Fairness ==
    /\ WF_vars(RunStep)
    /\ WF_vars(OnstopTaskFinish)
    /\ \A n \in 0..(MaxHello - 1) : WF_vars(CheckTimeout(n))

InitFair == Init /\ running_event = "none"

FairSpec == InitFair /\ [][NextRun]_vars /\ Fairness

(***************************************************************************)
(* The scheduler: BasicCore.schedule, ScheduledEvent, schedule_loop and    *)
(* Periodic._loop.  Deadlines are seconds since the epoch.                 *)
(***************************************************************************)
Deadlines == 1..MaxTime

\* the sequences of deadlines an iterator passed to schedule() may yield
DeadlineSeqs == { << >>, <<1>>, <<1, MaxTime>> }

\* Periodic.period
Period == 1

\* variant: the tie breaker counts down
get_tie_breaker_Down(t) == t - 1

\* BasicCore.get_tie_breaker
get_tie_breaker(t) == t + 1

\* the heap entry (deadline, tie, callback) pushed by _schedule_callback;
\* n counts the pushes and is no part of the entry the code compares
Entry(d, e) ==
    [d |-> d, t |-> get_tie_breaker(tie_breaker), e |-> e, n |-> pushes + 1]

\* tuple comparison of (deadline, tie)
EntryLE(x, y) == x.d < y.d \/ (x.d = y.d /\ x.t <= y.t)

\* heap[0]
HeapMin(h) == CHOOSE x \in h : \A y \in h : EntryLE(x, y)

\* schedule_loop: while heap and now >= heap[0][0]: heappop, spawn.
\* Each spawned callback is recorded with p, the number of pushes so far.
RECURSIVE PopDue(_, _)
PopDue(h, t) ==
    IF h = {} THEN << >>
    ELSE LET x == HeapMin(h) IN
         IF t >= x.d
         THEN << [e |-> x.e, d |-> x.d, n |-> x.n, p |-> pushes] >>
              \o PopDue(h \ {x}, t)
         ELSE << >>

\* variant: the canceled flag is not consulted
Runs_IgnoreCancel(e) == TRUE

\* ScheduledEvent.__call__ and _schedule_iter.wrapper: the function is
\* called only if the event is not canceled
Runs(e) == e \notin canceled

\* variant: the callback is called inside schedule_loop, whose greenlet
\* dies with the exception
AfterCallback_Inline(pc, outcome) ==
    IF outcome = "raise" THEN "crashed" ELSE pc

\* schedule_loop runs each callback in a greenlet of its own: the loop's
\* greenlet is not affected by the way the callback ends
AfterCallback(pc, outcome) == pc

\* variant: Periodic._loop without its try/except
AfterPeriodicCall_NoCatch(outcome, timeout) ==
    IF outcome = "raise" THEN "crashed"
    ELSE IF timeout > 0 THEN "sleep" ELSE "call"

\* Periodic._loop: the exception of the method is caught and logged; the
\* loop sleeps if the next deadline lies ahead and calls again otherwise
AfterPeriodicCall(outcome, timeout) ==
    IF timeout > 0 THEN "sleep" ELSE "call"

NextEvent == CHOOSE e \in Events : kinds[e] = "none" /\
                 \A f \in Events : f < e => kinds[f] # "none"

\* schedule(deadline, func) with a single instant
Schedule(d) ==
    /\ \E e \in Events : kinds[e] = "none"
    /\ LET e == NextEvent IN
        /\ kinds' = [kinds EXCEPT ![e] = "oneshot"]
        /\ heap' = heap \cup {Entry(d, e)}
        /\ deadlines' = [deadlines EXCEPT ![e] = << d >>]
    /\ tie_breaker' = get_tie_breaker(tie_breaker)
    /\ pushes' = pushes + 1
    /\ UNCHANGED <<now, canceled, finished, iters, spawnQ, calls, schedPc,
                   raised, periodicPc, periodicDeadline, periodicRaised,
                   started>>
    /\ UNCHANGED coreVars
    /\ UNCHANGED notSchedule

\* schedule(deadline, func) with an iterator: _schedule_iter
ScheduleIter(ds) ==
    /\ \E e \in Events : kinds[e] = "none"
    /\ LET e == NextEvent IN
        /\ kinds' = [kinds EXCEPT ![e] = "iter"]
        /\ deadlines' = [deadlines EXCEPT ![e] = ds]
        /\ IF ds = << >>
           THEN /\ finished' = finished \cup {e}
                /\ UNCHANGED <<heap, tie_breaker, pushes, iters>>
           ELSE /\ heap' = heap \cup {Entry(Head(ds), e)}
                /\ tie_breaker' = get_tie_breaker(tie_breaker)
                /\ pushes' = pushes + 1
                /\ iters' = [iters EXCEPT ![e] = Tail(ds)]
                /\ UNCHANGED finished
    /\ UNCHANGED <<now, canceled, spawnQ, calls, schedPc, raised,
                   periodicPc, periodicDeadline, periodicRaised, started>>
    /\ UNCHANGED coreVars
    /\ UNCHANGED notSchedule

\* ScheduledEvent.cancel
Cancel(e) ==
    /\ kinds[e] # "none"
    /\ e \notin canceled
    /\ canceled' = canceled \cup {e}
    /\ UNCHANGED <<now, heap, tie_breaker, pushes, kinds, finished, iters,
                   spawnQ, calls, schedPc, raised, periodicPc,
                   periodicDeadline, periodicRaised, started>>
    /\ UNCHANGED coreVars
    /\ UNCHANGED extVars

\* one second passes
Tick ==
    /\ now < MaxTime
    /\ now' = now + 1
    /\ UNCHANGED <<heap, tie_breaker, pushes, kinds, canceled, finished,
                   iters, spawnQ, calls, schedPc, raised, periodicPc,
                   periodicDeadline, periodicRaised, started>>
    /\ UNCHANGED coreVars
    /\ UNCHANGED extVars

\* onstart is sent: its receivers start_periodics and scheduler.start()
OnstartScheduler ==
    /\ schedPc = "created"
    /\ schedPc' = "running"
    /\ periodicPc' = "call"
    /\ periodicDeadline' = now
    /\ UNCHANGED <<now, heap, tie_breaker, pushes, kinds, canceled, finished,
                   iters, spawnQ, calls, raised, periodicRaised, started>>
    /\ UNCHANGED coreVars
    /\ UNCHANGED extVars

\* schedule_loop woke up (deadline reached or _schedule_event set)
ScheduleLoop ==
    /\ schedPc = "running"
    /\ PopDue(heap, now) # << >>
    /\ LET due == PopDue(heap, now) IN
        /\ spawnQ' = spawnQ \o due
        /\ heap' = { x \in heap :
                       \A i \in 1..Len(due) : due[i].n # x.n }
    /\ UNCHANGED <<now, tie_breaker, pushes, kinds, canceled, finished,
                   iters, calls, schedPc, raised, periodicPc,
                   periodicDeadline, periodicRaised, started>>
    /\ UNCHANGED coreVars
    /\ UNCHANGED extVars

\* the oldest spawned callback runs: ScheduledEvent.__call__ for a single
\* instant, _schedule_iter.wrapper for an iterator; the function ends with
\* outcome "ok" or "raise".
CallbackRuns(outcome) ==
    /\ spawnQ # << >>
    /\ LET x == Head(spawnQ)
           e == x.e
           more == kinds[e] = "iter" /\ Runs(e) /\ iters[e] # << >>
       IN
        /\ spawnQ' = Tail(spawnQ)
        /\ started' = started \cup {x.n}
        /\ ~Runs(e) => outcome = "ok"
        /\ calls' = IF Runs(e) THEN [calls EXCEPT ![e] = @ + 1] ELSE calls
        /\ raised' = (raised \/ outcome = "raise")
        /\ finished' = IF ~more /\ outcome = "ok"
                       THEN finished \cup {e} ELSE finished
        /\ IF more
           THEN /\ heap' = heap \cup {Entry(Head(iters[e]), e)}
                /\ tie_breaker' = get_tie_breaker(tie_breaker)
                /\ pushes' = pushes + 1
                /\ iters' = [iters EXCEPT ![e] = Tail(@)]
           ELSE UNCHANGED <<heap, tie_breaker, pushes, iters>>
        /\ schedPc' = IF Runs(e) THEN AfterCallback(schedPc, outcome)
                      ELSE schedPc
        /\ deadlines' = IF Runs(e) /\ calls[e] < Len(deadlines[e])
                        THEN [deadlines EXCEPT ![e][calls[e] + 1] = 0]
                        ELSE deadlines
    /\ UNCHANGED <<now, kinds, canceled, periodicPc, periodicDeadline,
                   periodicRaised>>
    /\ UNCHANGED coreVars
    /\ UNCHANGED notSchedule

\* run acts on the stop request: scheduler.kill().  Every link of the
\* scheduler greenlet kills the greenlet spawned last.
SchedulerKill ==
    /\ schedPc \in {"created", "running"}
    /\ schedPc' = "killed"
    /\ spawnQ' = IF spawnQ = << >> THEN spawnQ
                 ELSE SubSeq(spawnQ, 1, Len(spawnQ) - 1)
    /\ deadlines' =
          IF spawnQ = << >> THEN deadlines
          ELSE LET e == spawnQ[Len(spawnQ)].e IN
               IF calls[e] < Len(deadlines[e])
               THEN [deadlines EXCEPT ![e][calls[e] + 1] = 0]
               ELSE deadlines
    /\ UNCHANGED <<now, heap, tie_breaker, pushes, kinds, canceled, finished,
                   iters, calls, raised, periodicPc, periodicDeadline,
                   periodicRaised, started>>
    /\ UNCHANGED coreVars
    /\ UNCHANGED notSchedule

\* Periodic._loop: the method is called; deadline += period; a deadline
\* already passed is moved to now (no catching up)
PeriodicCall(outcome) ==
    /\ periodicPc = "call"
    /\ LET deadline == periodicDeadline + Period
           timeout == deadline - now
       IN /\ periodicPc' = AfterPeriodicCall(outcome, timeout)
          /\ periodicDeadline' =
                IF timeout > 0 THEN deadline ELSE deadline - timeout
    /\ periodicRaised' = (periodicRaised \/ outcome = "raise")
    /\ UNCHANGED <<now, heap, tie_breaker, pushes, kinds, canceled, finished,
                   iters, spawnQ, calls, schedPc, raised, started>>
    /\ UNCHANGED coreVars
    /\ UNCHANGED extVars

\* Periodic._loop: gevent.sleep(timeout) is over
PeriodicWake ==
    /\ periodicPc = "sleep"
    /\ now >= periodicDeadline
    /\ periodicPc' = "call"
    /\ UNCHANGED <<now, heap, tie_breaker, pushes, kinds, canceled, finished,
                   iters, spawnQ, calls, schedPc, raised, periodicDeadline,
                   periodicRaised, started>>
    /\ UNCHANGED coreVars
    /\ UNCHANGED extVars

\* run returned: kill_leftover_greenlets kills the periodic greenlet
PeriodicKill ==
    /\ schedPc = "killed"
    /\ periodicPc \in {"call", "sleep"}
    /\ periodicPc' = "killed"
    /\ UNCHANGED <<now, heap, tie_breaker, pushes, kinds, canceled, finished,
                   iters, spawnQ, calls, schedPc, raised, periodicDeadline,
                   periodicRaised, started>>
    /\ UNCHANGED coreVars
    /\ UNCHANGED extVars

\* The scheduler with single instants, iterators and cancel.
NextSched ==
    \/ \E d \in Deadlines : Schedule(d)
    \/ \E ds \in DeadlineSeqs : ScheduleIter(ds)
    \/ \E e \in Events : Cancel(e)
    \/ Tick
    \/ OnstartScheduler
    \/ ScheduleLoop
    \/ \E outcome \in {"ok", "raise"} : CallbackRuns(outcome)
    \/ SchedulerKill

InitSched == Init /\ address = "inproc" /\ running_event = "none"

SpecSched == InitSched /\ [][NextSched]_vars

\* The scheduler and a periodic method, for an owner that schedules single
\* instants and a repeating event and cancels nothing.
NextRaise ==
    \/ \E d \in Deadlines : Schedule(d)
    \/ ScheduleIter(<<1, MaxTime>>)
    \/ Tick
    \/ OnstartScheduler
    \/ ScheduleLoop
    \/ \E outcome \in {"ok", "raise"} : CallbackRuns(outcome)
    \/ SchedulerKill
    \/ \E outcome \in {"ok", "raise"} : PeriodicCall(outcome)
    \/ PeriodicWake
    \/ PeriodicKill

\* gevent runs every greenlet that is ready
FairRaise ==
    /\ InitSched
    /\ [][NextRaise]_vars
    /\ WF_vars(ScheduleLoop)
    /\ WF_vars(\E outcome \in {"ok", "raise"} : CallbackRuns(outcome))

(***************************************************************************)
(* The receive loop frame by frame: every frame names a registered          *)
(* subsystem; a handler runs inside the loop's greenlet and may yield       *)
(* before it returns.                                                       *)
(***************************************************************************)
\* variant: the queue hands out the newest message first
QueueGet_Lifo(q) == q[Len(q)]

\* gevent.queue.Queue.get: the oldest message
QueueGet(q) == Head(q)

\* the queue without the message m
QueueRest(q, m) ==
    LET i == CHOOSE j \in 1..Len(q) : q[j] = m
    IN SubSeq(q, 1, i - 1) \o SubSeq(q, i + 1, Len(q))

\* gevent.queue.Queue.put
QueuePut(q, m) == Append(q, m)

notOrder == <<coreVars, schedVars, stopVars, regVars, peerVars, retryVars,
              moreVars>>

\* the loop has taken frame m: handle(message) is called if the subsystem
\* has a handler; the KeyError branch sends its reply and the loop goes on
Dispatched(m, handled) ==
    IF handled
    THEN /\ handling' = m
         /\ startedFrames' = Append(startedFrames, m)
    ELSE UNCHANGED <<handling, startedFrames>>

\* ZMQCore vip_loop: sock.recv_vip_object returns the next frame
ZmqVipLoopTake(handled) ==
    /\ bus = "zmq"
    /\ handling = 0
    /\ Len(arrived) < MaxFrames
    /\ arrived' = Append(arrived, handled)
    /\ Dispatched(Len(arrived) + 1, handled)
    /\ UNCHANGED <<bus, event_queue, returnedFrames>>
    /\ UNCHANGED notOrder

\* RMQCore.vip_message_handler, the callback of the broker connection
VipMessageHandler(handled) ==
    /\ bus = "rmq"
    /\ Len(arrived) < MaxFrames
    /\ arrived' = Append(arrived, handled)
    /\ event_queue' = QueuePut(event_queue, Len(arrived) + 1)
    /\ UNCHANGED <<bus, handling, startedFrames, returnedFrames>>
    /\ UNCHANGED notOrder

\* RMQCore vip_loop: self._event_queue.get returns a message
RmqVipLoopTake ==
    /\ bus = "rmq"
    /\ handling = 0
    /\ event_queue # << >>
    /\ LET m == QueueGet(event_queue) IN
        /\ event_queue' = QueueRest(event_queue, m)
        /\ Dispatched(m, arrived[m])
    /\ UNCHANGED <<bus, arrived, returnedFrames>>
    /\ UNCHANGED notOrder

\* handle(message) returns to the loop
HandlerReturn ==
    /\ handling # 0
    /\ returnedFrames' = Append(returnedFrames, handling)
    /\ handling' = 0
    /\ UNCHANGED <<bus, arrived, event_queue, startedFrames>>
    /\ UNCHANGED notOrder

NextOrder ==
    \/ \E handled \in BOOLEAN : ZmqVipLoopTake(handled)
    \/ \E handled \in BOOLEAN : VipMessageHandler(handled)
    \/ RmqVipLoopTake
    \/ HandlerReturn

InitOrder ==
    /\ CoreInit /\ SchedInit /\ ExtInit
    /\ address = "inproc" /\ running_event = "none"

SpecOrder == InitOrder /\ [][NextOrder]_vars

(***************************************************************************)
(* Specification of the peer directory: an agent with a PeerList, the      *)
(* callers of the PeerList, and the router's replies.                      *)
(***************************************************************************)
PeerListOps == {"list", "add", "drop", "list_with_messagebus"}

\* PeerList.__init__
PeerListInit ==
    Register("peerlist", "peerlist_handle_subsystem", "peerlist_onerror")

NextPeer ==
    \/ PeerListInit
    \/ RunPreSetup
    \/ RunOnSetup
    \/ RunPreStart
    \/ RunStart
    \/ RunStopActed
    \/ RunPreFinish
    \/ RunOnFinish
    \/ RunReturn
    \/ OnstartTaskFinish
    \/ OnstopTaskFinish
    \/ \E m \in HelloFrames \cup PeerListFrames : VipLoopRecv(m)
    \/ \E n \in 0..(MaxHello - 1) : CheckReturn(n)
    \/ \E n \in 0..(MaxHello - 1) : CheckTimeout(n)
    \/ Stop(FALSE)
    \/ \E op \in PeerListOps : PeerListRequest(op)

SpecPeer == InitDispatch /\ [][NextPeer]_vars

\* the agent with a PeerList that asks for listings and receives every
\* frame that bears on the set of peers
NextPeerSet ==
    \/ PeerListInit
    \/ RunStep
    \/ OnstartTaskFinish
    \/ OnstopTaskFinish
    \/ \E m \in HelloFrames \cup PeerSetFrames : VipLoopRecv(m)
    \/ Stop(FALSE)
    \/ PeerListRequest("list")

SpecPeerSet == InitDispatch /\ [][NextPeerSet]_vars

\* the same agent on a tcp address, whose monitor sees the connection
\* come and go
NextPeerDrop ==
    \/ PeerListInit
    \/ RunPreSetup
    \/ RunOnSetup
    \/ RunPreStart
    \/ RunStart
    \/ RunStopActed
    \/ RunPreFinish
    \/ RunOnFinish
    \/ RunReturn
    \/ OnstartTaskFinish
    \/ OnstopTaskFinish
    \/ MonitorConnected
    \/ MonitorDisconnected
    \/ \E m \in HelloFrames \cup ListingFrames : VipLoopRecv(m)
    \/ \E n \in 0..(MaxHello - 1) : CheckReturn(n)
    \/ \E n \in 0..(MaxHello - 1) : CheckTimeout(n)
    \/ Stop(FALSE)
    \/ PeerListRequest("list")

InitPeerDrop == Init /\ address = "tcp" /\ running_event = "none"

SpecPeerDrop == InitPeerDrop /\ [][NextPeerDrop]_vars

(***************************************************************************)
(* Specification of the reconnect counter: an agent on a tcp address whose *)
(* monitor sees the socket connect, disconnect and retry.                  *)
(***************************************************************************)
NextRetry ==
    \/ RunPreSetup
    \/ RunOnSetup
    \/ RunPreStart
    \/ RunStart
    \/ RunStopActed
    \/ RunPreFinish
    \/ RunOnFinish
    \/ RunReturn
    \/ OnstartTaskFinish
    \/ OnstopTaskFinish
    \/ MonitorConnected
    \/ MonitorDisconnected
    \/ MonitorRetried
    \/ \E m \in HelloFrames : VipLoopRecv(m)
    \/ \E n \in 0..(MaxHello - 1) : CheckReturn(n)
    \/ \E n \in 0..(MaxHello - 1) : CheckTimeout(n)

SpecRetry == InitPeerDrop /\ [][NextRetry]_vars

\* An agent whose socket, once connected, stays connected: its retries are
\* those of a socket that has not connected yet.  With the return of the
\* monitor from stop, under the fairness of the lifecycle: run takes its
\* steps, the onstop receivers finish, and the monitor is resumed when its
\* join is over.
NextGiveUp ==
    \/ RunPreSetup
    \/ RunOnSetup
    \/ RunPreStart
    \/ RunStart
    \/ RunStopActed
    \/ RunPreFinish
    \/ RunOnFinish
    \/ RunReturn
    \/ OnstartTaskFinish
    \/ OnstopTaskFinish
    \/ MonitorConnected
    \/ MonitorRetried
    \/ RmqConnectCallback
    \/ RmqConnectionError
    \/ MonitorStopReturns
    \/ \E m \in HelloFrames : VipLoopRecv(m)
    \/ \E n \in 0..(MaxHello - 1) : CheckReturn(n)
    \/ \E n \in 0..(MaxHello - 1) : CheckTimeout(n)
    \/ \E ps \in BOOLEAN : Stop(ps)

InitGiveUp ==
    /\ CoreInit /\ SchedInit /\ ExtInit
    /\ address = "tcp" /\ running_event = "none"

FairGiveUp ==
    /\ InitGiveUp
    /\ [][NextGiveUp]_vars
    /\ WF_vars(RunStep)
    /\ WF_vars(OnstopTaskFinish)
    /\ WF_vars(MonitorStopReturns)

(***************************************************************************)
(* Specification of the scheduler inside run: the scheduler greenlet is    *)
(* made by run, started by a receiver of onstart and killed when run acts  *)
(* on the stop request.                                                    *)
(***************************************************************************)
\* the step named e of run has been taken
Happened(e) == \E i \in 1..Len(trace) : trace[i] = e

\* variant: run starts the scheduler greenlet when it has made it
SchedulerStarter_Run == Happened("spawnloop")

\* self.onstart.connect(lambda *_, **__: scheduler.start()): the greenlet
\* is started by a receiver of onstart
SchedulerStarter == Happened("onstart")

\* run has passed stop.wait(): scheduler.kill() is part of that stretch
StopActed == Happened("stopacted")

NextStartSched ==
    \/ RunStep
    \/ OnstopTaskFinish
    \/ \E m \in HelloFrames : VipLoopRecv(m)
    \/ Stop(FALSE)
    \/ \E d \in Deadlines : Schedule(d)
    \/ Tick
    \/ SchedulerStarter /\ ~StopActed /\ OnstartScheduler
    \/ ~StopActed /\ ScheduleLoop
    \/ (~StopActed \/ schedPc = "killed") /\ CallbackRuns("ok")
    \/ StopActed /\ SchedulerKill

SpecStartSched == InitDispatch /\ [][NextStartSched]_vars

(***************************************************************************)
(* Specification of an agent whose subsystems register under any name,     *)
(* "error" included, before it runs and receives frames of every kind.     *)
(***************************************************************************)
NextErrorEntry ==
    \/ \E name \in {"error", "pubsub"}, handler \in {"h1", "h2"} :
            Register(name, handler, NoHandler)
    \/ RunStep
    \/ OnstartTaskFinish
    \/ OnstopTaskFinish
    \/ \E m \in InboundFrames \cup ErrorFrames : VipLoopRecv(m)
    \/ Stop(FALSE)

SpecErrorEntry == InitDispatch /\ [][NextErrorEntry]_vars

(***************************************************************************)
(* Specification of a PolyLine to which points are added.                  *)
(***************************************************************************)
NextPoly == \E point \in Points : Add(point)

SpecPoly == Init /\ [][NextPoly]_vars

(***************************************************************************)
(* Specification of the shutdown: an agent whose connection comes and      *)
(* goes is stopped, by its owner or on the shutdown of the platform, at    *)
(* any moment of its run.                                                  *)
(***************************************************************************)
NextShutdown ==
    \/ RunStep
    \/ OnstartTaskFinish
    \/ OnstopTaskFinish
    \/ MonitorConnected
    \/ MonitorDisconnected
    \/ \E m \in HelloFrames : VipLoopRecv(m)
    \/ \E ps \in BOOLEAN : Stop(ps)

SpecShutdown == Init /\ [][NextShutdown]_vars

(***************************************************************************)
(* Specification of a receive loop that may end on its own: the socket is  *)
(* found closed by recv while run waits or shuts down.                     *)
(***************************************************************************)
\* a stop whose agentstop frame would be sent on the closed socket is left
\* out: its send raises
NextPremature ==
    \/ RunStep
    \/ RunRaises
    \/ VipLoopEnds
    \/ OnstartTaskFinish
    \/ OnstopTaskFinish
    \/ MonitorConnected
    \/ \E m \in HelloFrames : VipLoopRecv(m)
    \/ \E ps \in BOOLEAN :
          /\ SendRaises => AgentStopFrames(connected, ps) = << >>
          /\ Stop(ps)

SpecPremature == Init /\ [][NextPremature]_vars

(***************************************************************************)
(* Specification of the handshake over RabbitMQ: the broker connection     *)
(* is made and lost while the router binds its queue at some moment.       *)
(***************************************************************************)
InitRmq == CoreInit /\ SchedInit /\ ExtInit /\ bus = "rmq"

NextRmq ==
    \/ RunStep
    \/ OnstartTaskFinish
    \/ OnstopTaskFinish
    \/ RouterBinds
    \/ RmqConnectCallback
    \/ RmqConnectionError
    \/ MonitorStopReturns
    \/ \E m \in HelloFrames : VipLoopRecv(m)
    \/ \E n \in 0..(MaxHello - 1) : CheckReturn(n)
    \/ \E n \in 0..(MaxHello - 1) : CheckTimeout(n)
    \/ Stop(FALSE)

SpecRmq == InitRmq /\ [][NextRmq]_vars

(***************************************************************************)
(* Specification of the handshake alone, for an agent on a tcp address:    *)
(* connects, disconnects, and the welcomes a router may send, with one     *)
(* under an ident the agent never used.                                    *)
(***************************************************************************)
NextWelcome ==
    \/ RunStep
    \/ OnstopTaskFinish
    \/ MonitorConnected
    \/ MonitorDisconnected
    \/ \E m \in HelloFrames \cup StrayHelloFrames : VipLoopRecv(m)
    \/ Stop(FALSE)

SpecWelcome == InitPeerDrop /\ [][NextWelcome]_vars

(***************************************************************************)
(* Specification of the hand-off of calls from other threads to the hub.   *)
(***************************************************************************)
(***************************************************************************)
(* BasicCore.spawn and spawn_later, and the greenlets they start.          *)
(***************************************************************************)
notTasks == <<lifeVars, schedVars, stopVars, regVars, orderVars, peerVars,
              retryVars, sigVars, asyncVars, deadlines, lateVars>>

\* the next greenlet to be made
NextTask(t) ==
    /\ greenlets[t] = "none"
    /\ \A j \in TaskIds : j < t => greenlets[j] # "none"

\* spawn (later = FALSE) and spawn_later (later = TRUE): the assert passes
\* once run has stored its greenlet; the greenlet is made and added to
\* spawned_greenlets
Spawn(t, later) ==
    /\ runPc # "init"
    /\ NextTask(t)
    /\ greenlets' = [greenlets EXCEPT ![t] =
                         IF later THEN "pending" ELSE "running"]
    /\ taskVia' = [taskVia EXCEPT ![t] =
                       IF later THEN "spawn_later" ELSE "spawn"]
    /\ tracked' = tracked \cup {t}
    /\ spawnedLate' = IF runPc = "returned"
                      THEN spawnedLate \cup {t} ELSE spawnedLate
    /\ UNCHANGED steppedLate
    /\ Quiet
    /\ UNCHANGED notTasks

\* the hub runs the greenlet: the start timer of spawn_later expires and
\* func is entered, or func runs to its end
TaskStep(t) ==
    /\ greenlets[t] \in {"pending", "running"}
    /\ greenlets' = [greenlets EXCEPT ![t] =
                     IF greenlets[t] = "pending" THEN "running" ELSE "done"]
    /\ steppedLate' = IF runPc = "returned"
                      THEN steppedLate \cup {t} ELSE steppedLate
    /\ UNCHANGED <<taskVia, tracked, spawnedLate>>
    /\ Quiet
    /\ UNCHANGED notTasks

NextTasks ==
    \/ RunStep
    \/ OnstartTaskFinish
    \/ OnstopTaskFinish
    \/ \E m \in HelloFrames : VipLoopRecv(m)
    \/ \E t \in TaskIds, later \in BOOLEAN : Spawn(t, later)
    \/ \E t \in TaskIds : TaskStep(t)
    \/ Stop(FALSE)

SpecTasks == InitDispatch /\ [][NextTasks]_vars

\* The hub of the runtime is one thread.  It can run a greenlet or a
\* callback only while no greenlet of its own is inside a call that does
\* not yield, and handle_async_, which never yields, is not in progress.
HubHeldBy(c) ==
    callback[c] = "blocked" /\ callKind[c] # "spawn_in_thread"

HubFree == \A c \in Calls : ~HubHeldBy(c)

HubIdle == HubFree /\ handle_async = "idle"

Outcomes == {"returned", "raised", "exited"}

\* the steps of the greenlets and callbacks of the hub
HubStep ==
    \/ HubIdle /\ RunStep
    \/ HubIdle /\ OnstopTaskFinish
    \/ HubIdle /\ HandleAsyncBegin
    \/ HubFree /\ HandleAsyncTest
    \/ HubFree /\ HandleAsyncPop
    \/ HubIdle /\ \E c \in Calls : WorkerStart(c)
    \/ HubIdle /\ \E c \in Calls :
            callKind[c] # "spawn_in_thread" /\ FuncBlocks(c)
    \/ \E c \in Calls, o \in Outcomes :
            (HubIdle \/ HubHeldBy(c)) /\ WorkerFuncEnd(c, o)

\* the steps of the other threads
ThreadStep ==
    \/ \E c \in Calls : SendCall(c)
    \/ \E c \in Calls : SendAsyncCall(c)
    \/ \E c \in Calls : SpawnInThread(c)
    \/ \E c \in Calls : callKind[c] = "spawn_in_thread" /\ FuncBlocks(c)
    \/ \E c \in Calls, o \in Outcomes : ThreadFuncEnd(c, o)
    \/ \E c \in Calls : ProducerStep(c)
    \/ \E c \in Calls : Receiver(c)
    \/ Stop(FALSE)

NextAsync == HubStep \/ ThreadStep

SpecAsync == InitDispatch /\ [][NextAsync]_vars

\* the hand-off alone: the submitters and handle_async_, up to the spawn
NextHandOff ==
    \/ HubIdle /\ RunStep
    \/ HubIdle /\ OnstopTaskFinish
    \/ HubIdle /\ HandleAsyncBegin
    \/ HandleAsyncTest
    \/ HandleAsyncPop
    \/ \E c \in Calls : SendCall(c)
    \/ \E c \in Calls : SendAsyncCall(c)
    \/ \E c \in Calls : SpawnInThread(c)
    \/ \E c \in Calls, o \in {"returned", "raised"} : ThreadFuncEnd(c, o)
    \/ \E c \in Calls : ProducerStep(c)
    \/ Stop(FALSE)

SpecHandOff == InitDispatch /\ [][NextHandOff]_vars

(***************************************************************************)
(* Properties.                                                             *)
(***************************************************************************)

Pos(e) == CHOOSE i \in 1..Len(trace) : trace[i] = e

\* b happened only after a
Precedes(a, b) == Happened(b) => (Happened(a) /\ Pos(a) < Pos(b))

\* C1 as stated: in a run ended by a stop request the transport is opened
\* before onsetup, onsetup precedes the spawn of the receive loop, onstart
\* is fired before the stop request is acted on, onstop is fired only after
\* a stop request, onfinish only after onstop, and run returns only after
\* onfinish.
C1_StrictOrderAsClaimed ==
    /\ Precedes("open", "onsetup")
    /\ Precedes("onsetup", "spawnloop")
    /\ Precedes("onstart", "stopacted")
    /\ Precedes("stopreq", "onstop")
    /\ Precedes("onstop", "onfinish")
    /\ Precedes("onfinish", "return")

\* C1 amended: the same order, except that onstart is fired before the stop
\* request is acted on only when the matching welcome was processed before
\* that; onstart itself is never fired before the receive loop is spawned.
C1_LifecycleOrder ==
    /\ Precedes("open", "onsetup")
    /\ Precedes("onsetup", "spawnloop")
    /\ Precedes("spawnloop", "onstart")
    /\ (Happened("welcome") /\ Happened("stopacted")
            /\ Pos("welcome") < Pos("stopacted"))
         => Precedes("onstart", "stopacted")
    /\ Precedes("stopreq", "onstop")
    /\ Precedes("onstop", "onfinish")
    /\ Precedes("onfinish", "return")

\* a run that was stopped after its welcome has returned
C1_Witness ==
    /\ runPc = "returned"
    /\ Happened("welcome")
    /\ Pos("welcome") < Pos("stopacted")

\* C2: whenever onstart has been fired or a greenlet of an onstart receiver
\* exists, a welcome carrying the token of the outstanding hello has been
\* processed by the receive loop.
C2_OnstartAfterWelcome ==
    (Happened("onstart") \/ onstartTasks > 0) => welcomed # {}

C2_Witness == onstartTasks > 0 /\ welcomed # {}

C4_OnfinishAfterOnstopTasks == Happened("onfinish") => onstopTasks = 0

C4_Witness == Happened("onfinish") /\ Happened("onstop") /\ onstopTasks = 0

SubmittedLE(x, y) == x.d < y.d \/ (x.d = y.d /\ x.n <= y.n)

\* C5: when a callback starts, every entry that was in the heap together
\* with it and is still waiting (in the heap, or spawned and not started)
\* has a deadline that is not earlier and, for an equal deadline, was
\* submitted later.
C5_DeadlineThenSubmissionOrder ==
    [][ started' # started =>
          LET x == Head(spawnQ) IN
            /\ \A y \in heap : y.n <= x.p => SubmittedLE(x, y)
            /\ \A i \in 2..Len(spawnQ) :
                 (spawnQ[i].n <= x.p /\ x.n <= spawnQ[i].p)
                    => SubmittedLE(x, spawnQ[i]) ]_vars

\* two callbacks with one deadline were popped and spawned together, the
\* one submitted first ahead of the other
C5_Witness ==
    /\ Len(spawnQ) >= 2
    /\ spawnQ[1].d = spawnQ[2].d
    /\ spawnQ[1].n < spawnQ[2].n

\* C6: once an event is canceled its function is not invoked again, and the
\* function of an event scheduled for a single instant is invoked at most
\* once.
C6_CancelPreventsCall ==
    /\ [][ \A e \in Events : e \in canceled => calls'[e] = calls[e] ]_vars
    /\ [](\A e \in Events : kinds[e] = "oneshot" => calls[e] <= 1)

\* an event canceled before it fired: its callback ran and called nothing
C6_Witness ==
    \E e \in Events :
        /\ kinds[e] = "oneshot"
        /\ e \in canceled
        /\ e \in finished
        /\ calls[e] = 0

DueEntries == { x \in heap : x.d <= now }

\* C7: no exception of a callback ends the scheduler loop or the periodic
\* loop, and after a callback has raised the entries that are due while the
\* scheduler runs are still taken from the heap and spawned.
C7_RaiseDoesNotStopLoop ==
    /\ [](schedPc \in {"created", "running", "killed"})
    /\ [](periodicPc \in {"none", "call", "sleep", "killed"})
    /\ (raised /\ schedPc = "running" /\ DueEntries # {})
          ~> (DueEntries = {} \/ schedPc = "killed")

\* after a scheduled function and the periodic method have raised, an entry
\* is due and both loops are running
C7_Witness ==
    /\ raised
    /\ periodicRaised
    /\ schedPc = "running"
    /\ periodicPc = "call"
    /\ DueEntries # {}

\* C8: when the receive loop has looked up a frame's subsystem in the
\* registry and found no handler, the step wrote exactly one frame: subsystem
\* "error", the peer and the id of the inbound frame, and the args
\* <<code, message, original subsystem>>; it invoked no handler and the
\* receive loop is still running.
C8_UnknownSubsystemReply ==
    (recv # NoFrame /\ ~IsWelcome(recv, ident)
        /\ subsystems[recv.subsystem] = NoHandler)
    => /\ Len(out) = 1
       /\ out[1].subsystem = "error"
       /\ out[1].peer = recv.peer
       /\ out[1].id = recv.id
       /\ out[1].args =
            <<INVALID_SUBSYSTEM[1], INVALID_SUBSYSTEM[2], recv.subsystem>>
       /\ invoked = << >>
       /\ vipLoop = "running"

C8_Witness ==
    /\ recv.subsystem = "bogus"
    /\ recv.peer = "peerA"
    /\ Len(out) = 1
    /\ out[1].peer = "peerA"

\* C9: once a hello has been sent, either its welcome is processed or run
\* returns (the liveness check stops the runtime).
C9_HandshakeTimeoutStops ==
    (helloCount > 0) ~> (welcomed # {} \/ runPc = "returned")

\* run returned although no welcome was ever processed: the liveness check
\* stopped the runtime
C9_Witness ==
    /\ runPc = "returned"
    /\ welcomed = {}
    /\ \E n \in 0..(MaxHello - 1) : checks[n] = "stopped"
    /\ Happened("onstop")
    /\ Happened("onfinish")

\* C10 as stated: the liveness check of the outstanding hello ends without
\* forcing a stop only if the welcome matching that hello was processed.
C10_EveryHelloGuarded ==
    \A n \in 0..(MaxHello - 1) :
        (n = helloCount - 1 /\ checks[n] = "returned") => n \in welcomed

\* C11 as stated: a stop called while the runtime is already stopping (run
\* has acted on the first request and fired onstop) sends no further frame
\* to the router.
C11_SecondStopSilent ==
    runPc = "joining" =>
        \A i \in 1..Len(out) : out[i].subsystem # "agentstop"

\* C12 as stated: a stop that returned while run had not finished returned
\* a result that differs from the one returned when run has finished, for
\* BasicCore.stop and for Core.stop.
C12_StopReportsTimeout ==
    (stopCall = "returned" /\ ~stopResult.ready) =>
        /\ stopResult.basic # BasicStopResult(TRUE)
        /\ stopResult.core # CoreStopResult(BasicStopResult(TRUE))

\* C13 as stated: the handler installed first under a name stays installed:
\* a later register with that name does not replace it.
C13_NoReplacement ==
    \A name \in SubsystemNames :
        firstHandler[name] # NoHandler =>
            subsystems[name] = firstHandler[name]

\* the subsystem an error frame is about
Origin(m) ==
    IF Len(m.args) >= 4 THEN ErrorSubsystem(m.args)
    ELSE IF Len(m.args) = 3 THEN m.args[3]
    ELSE "unknown"

InvokedSet == { invoked[i] : i \in 1..Len(invoked) }

\* C14 as stated: when an error frame has been handed to handle_error, the
\* error handlers registered under a name were invoked if and only if the
\* frame's originating subsystem is that name.
C14_ErrorHandlerGetsItsErrors ==
    (recv.subsystem = "error" /\ invoked # << >>) =>
        \A name \in SubsystemNames :
            error_handlers[name] # << >> =>
                (Origin(recv) = name <=>
                    \A i \in 1..Len(error_handlers[name]) :
                        error_handlers[name][i] \in InvokedSet)

\* C15 as stated: a frame taken by the receive loop while the runtime is not
\* Connected (the matching welcome leaves it Connected) is handed to no
\* handler.
C15_NoDeliveryBeforeConnected ==
    (recv # NoFrame /\ ~connected) => invoked = << >>

QueuedFrames == { event_queue[i] : i \in 1..Len(event_queue) }

\* C16: the frames whose handler has been called are the frames with a
\* handler that the loop has taken, their handlers were called in the order
\* in which the frames were received, and a handler is called only after
\* the handler called before it has returned.
C16_HandledInArrivalOrder ==
    /\ \A i, j \in 1..Len(startedFrames) :
          i < j => startedFrames[i] < startedFrames[j]
    /\ { startedFrames[i] : i \in 1..Len(startedFrames) } =
          { k \in 1..Len(arrived) : arrived[k] /\ k \notin QueuedFrames }
    /\ \A i \in 1..Len(returnedFrames) :
          returnedFrames[i] = startedFrames[i]
    /\ Len(startedFrames) - Len(returnedFrames) =
          (IF handling = 0 THEN 0 ELSE 1)

\* on the broker variant frames waited in the queue together and the
\* handlers of two of them were called one after the other
C16_Witness ==
    /\ bus = "rmq"
    /\ Len(returnedFrames) >= 1
    /\ Len(startedFrames) >= 2
    /\ Len(arrived) = MaxFrames
    /\ event_queue # << >>

(***************************************************************************)
(* C17: when the connection drops, a pending result is rejected with an    *)
(* error that names the disconnect; none stays pending for ever.  Checked  *)
(* on the runs that have ended: once run has returned no greenlet is left  *)
(* that could complete a result, so a result pending then stays pending.   *)
(***************************************************************************)
C17_PendingRejectedOnDrop ==
    runPc = "returned" => \A k \in pendingAtDrop : results[k] # "pending"

(***************************************************************************)
(* C18: a pending peer-directory result is completed at most once, with a  *)
(* value or with an error; its entry leaves the table no later than its    *)
(* completion; a reply or an error frame whose id is not in the table      *)
(* changes neither the results, the table nor peers_list.                  *)
(***************************************************************************)
IsCorrelated(m) ==
    \/ m.subsystem = "error"
    \/ m.subsystem = "peerlist"
         /\ m.args[1] \in {"listing", "listing_with_messagebus"}

C18_CompletedOnce ==
    /\ [](\A k \in ResultIds :
            /\ completions[k] <= 1
            /\ results[k] \in {"value", "error"} =>
                    (k \notin table /\ completions[k] = 1)
            /\ results[k] \in {"none", "pending"} => completions[k] = 0)
    /\ [][(recv' # NoFrame /\ IsCorrelated(recv')
              /\ ResultOf(recv'.id) \notin table)
            => UNCHANGED <<results, table, completions, peers_list>>]_vars

\* a result was completed with a value, and an error frame with its id,
\* handed to the error handler of the PeerList afterwards, was ignored
C18_Witness ==
    /\ recv.subsystem = "error"
    /\ "peerlist_onerror" \in InvokedSet
    /\ ResultOf(recv.id) \in ResultIds
    /\ results[ResultOf(recv.id)] = "value"
    /\ completions[ResultOf(recv.id)] = 1
    /\ peers_list # {}

(***************************************************************************)
(* C19: a request whose send raised ENOTSOCK gives its caller a rejected   *)
(* result; it does not stay pending for ever.  Checked on the runs that    *)
(* have ended, as C17.                                                     *)
(***************************************************************************)
C19_SendFailureRejects ==
    runPc = "returned" =>
        \A k \in sendFailed : results[k] # "pending"

(***************************************************************************)
(* C20: the monitor gives up and stops the agent exactly when RetryCeiling *)
(* retries have happened with no successful connection in between; the     *)
(* retries before a successful connection do not count towards it.         *)
(***************************************************************************)
C20_GivesUpOnConsecutiveRetries == gaveUp <=> consecutive = RetryCeiling

(***************************************************************************)
(* C21: a disconnect event of the transport while the runtime is Connected *)
(* makes it Disconnected and fires ondisconnected for that transition; the *)
(* connection signals fire at such transitions only.                       *)
(***************************************************************************)
C21_DisconnectFiresSignal ==
    /\ [][(linkUp /\ ~linkUp' /\ connected) =>
            (~connected' /\ ondisconnectedSent' = ondisconnectedSent + 1)]_vars
    /\ [][(ondisconnectedSent' # ondisconnectedSent) =>
            (connected /\ ~connected')]_vars
    /\ [][(onconnectedSent' # onconnectedSent) =>
            (~connected /\ connected')]_vars

(***************************************************************************)
(* C22: when the reconnect attempts are exhausted the runtime requests     *)
(* stop and fires ondisconnected: run returns and the observers of         *)
(* ondisconnected are invoked, eventually.                                 *)
(***************************************************************************)
C22_ExhaustionStopsAndSignals ==
    /\ [](gaveUp => stop_event)
    /\ gaveUp ~> (runPc = "returned" /\ ondisconnectedSent > 0)

\* the 50th retry stopped the runtime: run has returned and close_socket
\* was called as the receiver of ondisconnected
C22_Witness ==
    /\ gaveUp
    /\ reconnect_attempt = RetryCeiling
    /\ runPc = "returned"
    /\ ondisconnectedSent = 1
    /\ "close_socket" \in InvokedSet

(***************************************************************************)
(* C23: no wait for a connection or for a welcome is unbounded.  A running *)
(* runtime that is not Connected, whose socket is connected and whose      *)
(* latest hello has no welcome yet, has nothing to expect from the         *)
(* transport: only the timeout of a liveness check can end its wait, so    *)
(* one must be pending that will stop the runtime when it expires.         *)
(***************************************************************************)
AwaitingWelcome ==
    /\ runPc = "waiting"
    /\ vipLoop = "running"
    /\ ~stop_event
    /\ ~connected
    /\ linkUp
    /\ (helloCount - 1) \notin welcomed

C23_WaitForWelcomeBounded ==
    AwaitingWelcome =>
        \E n \in 0..(MaxHello - 1) :
            checks[n] = "waiting" /\ ~hello_response_event

\* func has ended in the greenlet or thread that ran it
CallbackFinished(c) == callback[c] \in Outcomes

\* C24: the future returned by send_async is completed exactly once, after
\* the callback has run: with its return value when it returned, with the
\* exception when it raised; it is never completed before the callback has
\* finished, and once the callback has finished and no hand-over to the
\* caller is outstanding it is no longer pending.
C24_FutureCompletedOnce ==
    \A c \in Calls : callKind[c] = "send_async" =>
        /\ futureSets[c] <= 1
        /\ future[c] # "pending" => CallbackFinished(c)
        /\ future[c] = "value" => callback[c] = "returned"
        /\ future[c] = "exception" => callback[c] = "raised"
        /\ (CallbackFinished(c) /\ ~resultFlag[c]) => future[c] # "pending"

\* what the run greenlet, the receivers and handle_async_ could do next if
\* the hub ran them
LoopSteps ==
    \/ RunStep
    \/ OnstopTaskFinish
    \/ HandleAsyncBegin
    \/ \E c \in Calls : WorkerStart(c)

\* C25: the callback of send_async does not run on the cooperative loop of
\* the runtime: while such a callback is blocked, whatever the run
\* greenlet, the other greenlets and the hand-off were ready to do can still
\* be done.
C25_BlockedCallbackLeavesLoopFree ==
    \A c \in Calls :
        (callKind[c] = "send_async" /\ callback[c] = "blocked"
            /\ ENABLED LoopSteps)
        => ENABLED (HubStep /\ LoopSteps)

\* C30: while the runtime is running, a call submitted through send is
\* started by handle_async_ exactly once: it is never spawned twice, and
\* once its submitter has left send and the hand-off is at rest it has
\* been spawned and is no longer queued.
C30_StartedExactlyOnce ==
    \A c \in Calls :
        /\ spawnedFor[c] <= 1
        /\ (AsyncStarted /\ producer[c] = "done" /\ ~asyncSent
                /\ handle_async = "idle")
           => /\ spawnedFor[c] = 1
              /\ \A i \in 1..Len(async_calls) : async_calls[i] # c

\* handle_async_ popped call 2 between the two statements of its submitter,
\* after it had started call 1
C30_Witness ==
    /\ spawnedFor[1] = 1
    /\ spawnedFor[2] = 1
    /\ producer[2] = "second"
    /\ handle_async = "test"
    /\ callKind[1] = "send_async"
    /\ callKind[2] = "spawn_in_thread"

Uncanceled(e) == kinds[e] # "none" /\ e \notin canceled

\* C27: for an event given n deadlines and not canceled, the callback is
\* invoked at most n times and the event is finished exactly when the n-th
\* invocation has been made (at once for n = 0); the k-th invocation is
\* the one spawned for the k-th deadline and is not made before it.  A
\* single instant is the sequence of that one deadline.
C27_ScheduleUniform ==
    /\ [](\A e \in Events : Uncanceled(e) =>
            /\ calls[e] <= Len(deadlines[e])
            /\ e \in finished <=> calls[e] = Len(deadlines[e]))
    /\ [][\A e \in Events :
            (Uncanceled(e) /\ calls'[e] = calls[e] + 1) =>
                /\ spawnQ # << >>
                /\ Head(spawnQ).e = e
                /\ Head(spawnQ).d = deadlines[e][calls[e] + 1]
                /\ now >= deadlines[e][calls[e] + 1]]_vars

\* C28: the connected flag is set and onconnected is sent only by a step
\* that receives a frame of subsystem "hello" whose id is the ident of the
\* hello sent last and whose args are "welcome" and at least three further
\* values.
C28_ConnectedOnlyOnMatchingWelcome ==
    [][((~connected /\ connected') \/ onconnectedSent' # onconnectedSent) =>
          /\ recv'.subsystem = "hello"
          /\ recv'.id = HelloIdent(helloCount - 1)
          /\ Len(recv'.args) > 3
          /\ recv'.args[1] = "welcome"]_vars

\* the welcome to the first hello arrived after the second hello was sent
\* and did not connect; the welcome to the second hello did
C28_Witness ==
    /\ connected
    /\ recv = Message("", "hello", HelloIdent(1), "", WelcomeArgs)
    /\ 0 \in answered
    /\ welcomed = {1}

\* C29: a frame of subsystem "hello" never goes through the registry: the
\* step that receives it invokes no registered handler and sends no error
\* reply.
C29_HelloNeverThroughRegistry ==
    recv.subsystem = "hello" => (invoked = << >> /\ out = << >>)

\* C31: on RabbitMQ a hello is sent at once by connect_callback only while
\* the broker has the queue binding of the router; without the binding no
\* hello is sent by that step.
C31_HelloOnlyWhenRouterBound ==
    [][(bus = "rmq" /\ helloCount' = helloCount + 1) => routerBound]_vars

\* C32: no scheduled callback is spawned or run, and the scheduler loop
\* does not run, before onstart was sent (for a Core: before a welcome);
\* until the loop runs every scheduled event stays in the heap; and the
\* loop spawns the events that are due in the order of the schedule:
\* by deadline, and by schedule call among equal deadlines.
C32_NothingStartedBeforeOnstart ==
    /\ []((schedPc = "running" \/ spawnQ # << >> \/ started # {}
             \/ \E e \in Events : calls[e] > 0)
           => (Happened("onstart") /\ welcomed # {}))
    /\ [](schedPc = "created" => Cardinality(heap) = pushes)
    /\ [][Len(spawnQ') > Len(spawnQ) =>
            \A i, j \in (Len(spawnQ) + 1)..Len(spawnQ') :
                i < j => \/ spawnQ'[i].d < spawnQ'[j].d
                         \/ /\ spawnQ'[i].d = spawnQ'[j].d
                            /\ spawnQ'[i].n < spawnQ'[j].n]_vars

\* two events whose deadlines had passed were spawned together once the
\* scheduler ran, the one scheduled second with the earlier deadline first
C32_Witness ==
    /\ schedPc = "running"
    /\ Happened("onstart")
    /\ Len(spawnQ) = 2
    /\ spawnQ[1].p = spawnQ[2].p
    /\ spawnQ[1].d < spawnQ[2].d
    /\ spawnQ[1].n > spawnQ[2].n

C34_PrematureLoopEndRaises ==
    /\ [](vipLoop = "ended" =>
            (~Happened("onstop") /\ ~Happened("close")
             /\ ~Happened("onfinish") /\ ~Happened("return")
             /\ runPc \in {"waiting", "raised"}))
    /\ [](Happened("raise") => (vipLoop = "ended" /\ runPc = "raised"))
    /\ [][(vipLoop = "ended" /\ runPc' # runPc) => Happened("raise")']_vars

\* run raised after a stop request that came too late: the loop had ended
\* before it
C34_Witness ==
    /\ runPc = "raised"
    /\ Happened("raise")
    /\ stop_event
    /\ vipLoop = "ended"
    /\ welcomed # {}

\* C35: the receivers of onstart are invoked at most once in a run: a step
\* that spawns greenlets for them is taken only when onstart has not been
\* sent before, also when a later handshake is answered after a reconnect.
C35_OnstartAtMostOnce ==
    [][onstartTasks' > onstartTasks => ~Happened("onstart")]_vars

\* C36: the registry always has an entry named "error": it is there from
\* construction and register only replaces its handler.  So a frame of the
\* "error" subsystem that the loop receives is handed to a handler and is
\* never answered with the error frame for an unknown subsystem.
C36_ErrorEntryAlwaysPresent ==
    /\ [](subsystems["error"] # NoHandler)
    /\ [](recv.subsystem = "error" =>
            (/\ invoked # << >>
             /\ invoked[1] = subsystems["error"]
             /\ out = << >>))

\* an error frame was handed to the handler a subsystem had registered
\* under the name "error"
C36_Witness ==
    /\ recv \in ErrorFrames
    /\ subsystems["error"] = "h2"
    /\ invoked = << "h2" >>
    /\ out = << >>

\* C37: a call of Core.stop sends exactly one 'agentstop' frame with the
\* identity of the agent and requests the termination of run when the
\* agent is connected and platform_shutdown is false; when the agent is
\* not connected or platform_shutdown is true the call sends nothing and
\* only requests the termination.
C37_AgentStopIffConnected ==
    [][\A ps \in BOOLEAN :
         Stop(ps) =>
            /\ stop_event'
            /\ IF connected /\ ~ps
               THEN /\ Len(out') = 1
                    /\ out'[1].subsystem = "agentstop"
                    /\ out'[1].peer = ""
                    /\ out'[1].args = << Identity >>
               ELSE out' = << >>]_vars

\* a stop was requested while the agent was connected and its frame is on
\* the socket, and run has not acted on the request yet
C37_Witness ==
    /\ stop_event
    /\ connected
    /\ runPc = "waiting"
    /\ Len(out) = 1
    /\ out[1].subsystem = "agentstop"
    /\ out[1].args = << Identity >>

\* C38: the calls handed over with send are started in the order of their
\* submission: the call for which handle_async_ spawns a greenlet is the
\* one appended earliest among those pending in the queue.
C38_SpawnedInSubmissionOrder ==
    [][\A c \in Calls :
         spawnedFor'[c] > spawnedFor[c] =>
            (async_calls # << >> /\ Head(async_calls) = c)]_vars

\* C39: peers_list follows the frames handed to the PeerList: a 'listing'
\* reply whose id is that of an outstanding request replaces it with the
\* peers of the reply, an 'add' adds its peer, a 'drop' removes its peer
\* (nothing changes when the peer is absent), and a listing with an id
\* that matches no request, a frame without operation or without peer, a
\* frame with an unknown operation, and every other step leave it as it is.
C39_PeersListFollowsFrames ==
    [][LET m == recv'
           handled == /\ m # NoFrame
                      /\ m.subsystem = "peerlist"
                      /\ subsystems["peerlist"] = "peerlist_handle_subsystem"
           op == IF handled /\ Len(m.args) > 0 THEN m.args[1] ELSE "None"
       IN  peers_list' =
             IF handled /\ op = "listing" /\ ResultOf(m.id) \in table
             THEN { m.args[i] : i \in 2..Len(m.args) }
             ELSE IF handled /\ op = "add" /\ Len(m.args) > 1
             THEN peers_list \cup {m.args[2]}
             ELSE IF handled /\ op = "drop" /\ Len(m.args) > 1
             THEN { p \in peers_list : p # m.args[2] }
             ELSE peers_list]_vars

\* a listing was taken over by the PeerList and a later drop of peerA left
\* peerB as the only peer
C39_Witness ==
    /\ recv \in PeerSetFrames
    /\ recv.args = <<"drop", "peerA">>
    /\ peers_list = {"peerB"}
    /\ \E k \in ResultIds : results[k] = "value"

\* the least and the greatest number of a non-empty set
Least(S) == CHOOSE n \in S : \A m \in S : n <= m

Greatest(S) == CHOOSE n \in S : \A m \in S : n >= m

\* C40: after any sequence of add with points that have both coordinates,
\* min_x, max_x, min_y and max_y return the least and the greatest x and y
\* over all the points added, with min <= max; and an add of a point equal
\* in x and y to one of the list leaves the list and the extremes as they
\* are.
C40_ExtremesOverAddedPoints ==
    /\ [](added = {} =>
            (min_x = None /\ max_x = None /\ min_y = None /\ max_y = None))
    /\ [](added # {} =>
            (/\ min_x = Some(Least({ p.x : p \in added }))
             /\ max_x = Some(Greatest({ p.x : p \in added }))
             /\ min_y = Some(Least({ p.y : p \in added }))
             /\ max_y = Some(Greatest({ p.y : p \in added }))
             /\ min_x[1] <= max_x[1]
             /\ min_y[1] <= max_y[1]))
    /\ [][(adds' = adds + 1 /\ added' = added) =>
            UNCHANGED <<points, min_x, max_x, min_y, max_y>>]_vars

\* three adds of which one repeated a point of the list: two points with
\* different x and y are in the list
C40_Witness ==
    /\ adds = 3
    /\ Len(points) = 2
    /\ min_x # max_x
    /\ min_y # max_y

====
